---- MODULE Spec2Model ----
(***************************************************************************)
(* DataDock: federated person search over SQL and file data sources.       *)
(* The model follows src/services/search_service.py (the orchestrator and  *)
(* the provenance grouper), src/data_connectors/*.py (the connectors and   *)
(* the factory) and src/config.py (the sensitive keyword list).            *)
(*                                                                         *)
(* Python strings whose characters the code inspects (column and table     *)
(* names, cell values, identifiers, queries) are sequences of              *)
(* one-character strings; strings the code only compares or passes on      *)
(* (source names, file paths, connection strings) are TLA+ strings.        *)
(***************************************************************************)
EXTENDS Integers, Sequences, FiniteSets, TLC

(***************************************************************************)
(* Python str operations                                                   *)
(***************************************************************************)
Range(s) == {s[i] : i \in 1..Len(s)}

UpperChars == <<"A","B","C","D","E","F","G","H","I","J","K","L","M",
                "N","O","P","Q","R","S","T","U","V","W","X","Y","Z">>
LowerChars == <<"a","b","c","d","e","f","g","h","i","j","k","l","m",
                "n","o","p","q","r","s","t","u","v","w","x","y","z">>

LowerCh(c) ==
    IF \E i \in 1..Len(UpperChars) : UpperChars[i] = c
    THEN LowerChars[CHOOSE i \in 1..Len(UpperChars) : UpperChars[i] = c]
    ELSE c

\* s.lower()
StrLower(s) == [i \in 1..Len(s) |-> LowerCh(s[i])]

\* sub in s
StrIn(sub, s) ==
    \E i \in 0..(Len(s) - Len(sub)) : SubSeq(s, i + 1, i + Len(sub)) = sub

\* s.find(sub): the 0-based index of the first occurrence, -1 when there is none
StrFind(s, sub) ==
    IF StrIn(sub, s)
    THEN CHOOSE i \in 0..(Len(s) - Len(sub)) :
            /\ SubSeq(s, i + 1, i + Len(sub)) = sub
            /\ \A j \in 0..(i - 1) : SubSeq(s, j + 1, j + Len(sub)) # sub
    ELSE -1

\* s[a:b] for 0 <= a, 0 <= b
StrSlice(s, a, b) == SubSeq(s, a + 1, IF b < Len(s) THEN b ELSE Len(s))

\* s[a:]
StrFrom(s, a) == SubSeq(s, a + 1, Len(s))

WhiteSpace == {" "}

\* s.strip()
StrStrip(s) ==
    LET ink == {i \in 1..Len(s) : s[i] \notin WhiteSpace}
    IN  IF ink = {} THEN <<>>
        ELSE SubSeq(s, CHOOSE i \in ink : \A j \in ink : i <= j,
                       CHOOSE i \in ink : \A j \in ink : j <= i)

\* s.split(sep) for a one-character sep: the pieces between the separators
StrSplit(s, sep) ==
    LET cuts == {i \in 1..Len(s) : s[i] = sep}
        n    == Cardinality(cuts)
        \* position of the k-th separator; 0 before the first, Len(s)+1 after the last
        cut(k) == IF k = 0 THEN 0
                  ELSE IF k = n + 1 THEN Len(s) + 1
                  ELSE CHOOSE i \in cuts : Cardinality({j \in cuts : j < i}) = k - 1
    IN  [k \in 1..(n + 1) |-> SubSeq(s, cut(k - 1) + 1, cut(k) - 1)]

\* s.replace(ch, '') for a one-character ch
StrRemove(s, ch) == SelectSeq(s, LAMBDA c : c # ch)

\* sep.join(parts)
RECURSIVE StrJoin(_, _)
StrJoin(sep, parts) ==
    IF parts = <<>> THEN <<>>
    ELSE IF Len(parts) = 1 THEN parts[1]
    ELSE parts[1] \o sep \o StrJoin(sep, Tail(parts))

Digits == {"0","1","2","3","4","5","6","7","8","9"}

(***************************************************************************)
(* Cell values.  NULL is None / NaN: the one value that is not a string.   *)
(***************************************************************************)
NULL == <<"NaN">>

\* pd.notna(v)
notna(v) == v # NULL

\* str(v) and Series.astype(str) on one cell: NaN prints as "nan"
str(v) == IF v = NULL THEN <<"n","a","n">> ELSE v

(***************************************************************************)
(* pandas.DataFrame: ordered columns and rows; a row is the sequence of    *)
(* its cells in column order.                                              *)
(***************************************************************************)
\* pd.DataFrame()
EmptyDataFrame == [columns |-> <<>>, rows |-> <<>>]

\* df.empty: no rows or no columns
df_empty(df) == Len(df.columns) = 0 \/ Len(df.rows) = 0

\* len(df): the number of rows (the index survives a drop of every column)
df_len(df) == Len(df.rows)

\* the positions of the columns whose name is in kept, in column order
ColumnPositions(df, kept) ==
    SelectSeq([i \in 1..Len(df.columns) |-> i], LAMBDA i : df.columns[i] \in kept)

\* the frame restricted to the columns at the positions pos
df_take(df, pos) ==
    [columns |-> [k \in 1..Len(pos) |-> df.columns[pos[k]]],
     rows    |-> [r \in 1..Len(df.rows) |->
                    [k \in 1..Len(pos) |-> df.rows[r][pos[k]]]]]

\* df.drop(columns=cols)
df_drop(df, cols) ==
    df_take(df, ColumnPositions(df, Range(df.columns) \ Range(cols)))

\* df[mask]: the rows at which the boolean series mask holds
df_rows(df, mask) ==
    LET at == SelectSeq([r \in 1..Len(df.rows) |-> r], LAMBDA r : mask[r])
    IN  [columns |-> df.columns, rows |-> [k \in 1..Len(at) |-> df.rows[at[k]]]]

\* df.head(n)
df_head(df, n) ==
    [columns |-> df.columns,
     rows    |-> SubSeq(df.rows, 1, IF n < Len(df.rows) THEN n ELSE Len(df.rows))]

\* the position of column col in df (the first one of that name), 0 when absent
ColumnIndex(df, col) ==
    IF col \in Range(df.columns)
    THEN CHOOSE i \in 1..Len(df.columns) :
            df.columns[i] = col /\ \A j \in 1..(i - 1) : df.columns[j] # col
    ELSE 0

(***************************************************************************)
(* Config.SENSITIVE_FIELDS                                                 *)
(***************************************************************************)
SENSITIVE_FIELDS == <<
    <<"p","a","s","s","w","o","r","d">>,
    <<"s","s","n">>,
    <<"c","r","e","d","i","t","_","c","a","r","d">>,
    <<"p","h","o","n","e">>,
    <<"e","m","a","i","l">>,
    <<"a","d","d","r","e","s","s">>,
    <<"s","a","l","a","r","y">>,
    <<"m","e","d","i","c","a","l","_","r","e","c","o","r","d">>,
    <<"b","a","n","k","_","a","c","c","o","u","n","t">> >>

\* any(k in name for k in keywords)
AnyIn(keywords, name) == \E k \in 1..Len(keywords) : StrIn(keywords[k], name)

(***************************************************************************)
(* BaseConnector.filter_sensitive_fields                                   *)
(***************************************************************************)
\* BaseConnector._get_sensitive_fields: no subclass overrides it
get_sensitive_fields(table_name) == <<>>

\* the mutant: only the first sensitive column is removed
filter_sensitive_fields_FirstOnly(df, table_name) ==
    IF df_empty(df) THEN df
    ELSE LET columns_to_remove ==
                 SelectSeq(df.columns, LAMBDA col :
                     AnyIn(SENSITIVE_FIELDS, StrLower(col)))
         IN  IF columns_to_remove # <<>>
             THEN df_drop(df, <<columns_to_remove[1]>>) ELSE df

filter_sensitive_fields(df, table_name) ==
    IF df_empty(df) THEN df
    ELSE LET sensitive_fields == get_sensitive_fields(table_name)
             columns_to_remove ==
                 SelectSeq(df.columns, LAMBDA col :
                     \/ AnyIn(SENSITIVE_FIELDS, StrLower(col))
                     \/ AnyIn(sensitive_fields, StrLower(col)))
         IN  IF columns_to_remove # <<>> THEN df_drop(df, columns_to_remove) ELSE df

(***************************************************************************)
(* Python dict, in insertion order: a sequence of [k, v] entries.  Setting *)
(* a key that is present replaces its value in place.                      *)
(***************************************************************************)
DictKeys(d) == [i \in 1..Len(d) |-> d[i].k]

DictHas(d, key) == \E i \in 1..Len(d) : d[i].k = key

DictGet(d, key) == d[CHOOSE i \in 1..Len(d) : d[i].k = key].v

DictSet(d, key, val) ==
    IF DictHas(d, key)
    THEN [i \in 1..Len(d) |-> IF d[i].k = key THEN [k |-> key, v |-> val] ELSE d[i]]
    ELSE Append(d, [k |-> key, v |-> val])

(***************************************************************************)
(* Names the code writes as literals                                       *)
(***************************************************************************)
main_table   == <<"m","a","i","n","_","t","a","b","l","e">>
custom_query == <<"c","u","s","t","o","m","_","q","u","e","r","y">>

(***************************************************************************)
(* The world outside the program: the files on disk, already parsed into   *)
(* the frame pandas builds from them, and the databases that answer.       *)
(***************************************************************************)
col_name           == <<"n","a","m","e">>
col_ssn            == <<"s","s","n">>
col_Email          == <<"E","m","a","i","l">>
col_customer_id    == <<"c","u","s","t","o","m","e","r","_","i","d">>
col_customer_email == <<"c","u","s","t","o","m","e","r","_","e","m","a","i","l">>
col_city           == <<"c","i","t","y">>
col_full_name      == <<"f","u","l","l","_","n","a","m","e">>
col_email          == <<"e","m","a","i","l">>
col_order_id       == <<"o","r","d","e","r","_","i","d">>
col_amount         == <<"a","m","o","u","n","t">>

val_JaneDoe == <<"J","a","n","e"," ","D","o","e">>
val_C100    == <<"C","1","0","0">>
val_C100sp  == <<"C","1","0","0"," ">>

\* hr.csv: a person with an ssn and an e-mail, and a row with a missing e-mail
File_hr ==
    [columns |-> <<col_name, col_ssn, col_Email>>,
     rows    |-> << <<val_JaneDoe, <<"1","2","3">>, <<"j","@","x",".","c","o","m">> >>,
                    <<<<"B","o","b">>, <<"4","5","6">>, NULL>> >>]

\* crm.csv: a customer id with a trailing blank, a row without a customer id,
\* and a row that only its e-mail identifies
File_crm ==
    [columns |-> <<col_customer_id, col_name, col_customer_email>>,
     rows    |-> << <<val_C100sp, <<"A","n","n">>, NULL>>,
                    <<NULL, <<"M","r"," ","C","1","0","0">>, NULL>>,
                    <<NULL, <<" ">>, <<"c","1","0","0","@","x",".","c","o","m">> >> >>]

\* leads.json: the only person-identifier column is a sensitive one
File_leads ==
    [columns |-> <<col_customer_email, col_city>>,
     rows    |-> << <<<<"c","1","0","0","@","x",".","c","o","m">>, <<"R","o","m","e">> >> >>]

\* staff.csv: a row without a name
File_staff ==
    [columns |-> <<col_name, col_city>>,
     rows    |-> << <<NULL, <<"R","o","m","e">> >>,
                    <<<<"B","o","b">>, <<"O","s","l","o">> >> >>]

FileSystem ==
    [p \in {"data/hr.csv", "data/crm.csv", "data/leads.json", "data/staff.csv"} |->
        CASE p = "data/hr.csv"     -> File_hr
          [] p = "data/crm.csv"    -> File_crm
          [] p = "data/leads.json" -> File_leads
          [] p = "data/staff.csv"  -> File_staff]

tbl_customers == <<"c","u","s","t","o","m","e","r","s">>
tbl_orders    == <<"o","r","d","e","r","s">>

\* the erp database: its tables in catalog order
Db_erp ==
    << [k |-> tbl_customers,
        v |-> [columns |-> <<col_customer_id, col_full_name, col_email>>,
               rows    |-> << <<val_C100, <<"J","a","n","e"," ","P","o","e">>,
                                <<"j","p","@","x",".","c","o","m">> >>,
                              <<<<"C","2","0","0">>, <<"B","o","b">>, NULL>> >>]],
       [k |-> tbl_orders,
        v |-> [columns |-> <<col_order_id, col_amount>>,
               rows    |-> << <<<<"9">>, <<"1","0">> >> >>]] >>

Databases == [c \in {"postgresql://erp"} |-> Db_erp]

(***************************************************************************)
(* Schema classification by column name                                    *)
(***************************************************************************)
kw_name     == <<"n","a","m","e">>
kw_first    == <<"f","i","r","s","t">>
kw_last     == <<"l","a","s","t">>
kw_full     == <<"f","u","l","l">>
kw_person   == <<"p","e","r","s","o","n">>
kw_user     == <<"u","s","e","r">>
kw_customer == <<"c","u","s","t","o","m","e","r">>
kw_client   == <<"c","l","i","e","n","t">>
kw_id       == <<"i","d">>

\* the list in BaseConnector._get_person_identifier_columns
BasePersonIdentifiers ==
    <<kw_name, kw_first, kw_last, kw_full, kw_person, kw_user, kw_customer, kw_client>>

\* the list in SQLConnector._is_person_identifier
SqlPersonIdentifiers == BasePersonIdentifiers \o <<kw_id>>

\* the list in FileConnector._is_person_identifier and in group_results_by_person
FilePersonIdentifiers ==
    SqlPersonIdentifiers \o
    << <<"c","u","s","t","o","m","e","r","i","d">>,
       <<"c","u","s","t","o","m","e","r","_","i","d">>,
       <<"u","s","e","r","i","d">>,
       <<"u","s","e","r","_","i","d">> >>

\* the list in FileConnector._is_sensitive_field
FileSensitiveFields == SubSeq(SENSITIVE_FIELDS, 1, 7)

sql_is_sensitive_field(column_name) == AnyIn(SENSITIVE_FIELDS, StrLower(column_name))

sql_is_person_identifier(column_name) ==
    AnyIn(SqlPersonIdentifiers, StrLower(column_name))

file_is_sensitive_field(column_name) ==
    AnyIn(FileSensitiveFields, StrLower(column_name))

file_is_person_identifier(column_name) ==
    AnyIn(FilePersonIdentifiers, StrLower(column_name))

(***************************************************************************)
(* Connector objects.  One record shape for both classes: target is the    *)
(* connection string or the file path, kind the db_type or the file_type;  *)
(* engine is "none" (None), "open" (created) or "disposed"; loaded says    *)
(* that self.data is not None.                                             *)
(***************************************************************************)
NewConnector(class, target, name, kind) ==
    [class |-> class, target |-> target, name |-> name, kind |-> kind,
     is_connected |-> FALSE, engine |-> "none",
     loaded |-> FALSE, data |-> EmptyDataFrame]

\* a result of a call that can raise: raised, or the value
Raised == [raised |-> TRUE]

\* the mutant: a kind the factory does not know is taken for a file
create_connector_DefaultFile(config) ==
    IF config.type \in {"postgres", "mysql"}
    THEN [raised |-> FALSE,
          connector |-> NewConnector("SQLConnector", config.connection_string,
                                     config.name, config.type)]
    ELSE [raised |-> FALSE,
          connector |-> NewConnector("FileConnector", config.file_path,
                                     config.name, config.type)]

\* ConnectorFactory.create_connector
create_connector(config) ==
    IF config.type \in {"postgres", "mysql"}
    THEN [raised |-> FALSE,
          connector |-> NewConnector("SQLConnector", config.connection_string,
                                     config.name, config.type)]
    ELSE IF config.type \in {"csv", "json", "xml"}
    THEN [raised |-> FALSE,
          connector |-> NewConnector("FileConnector", config.file_path,
                                     config.name, config.type)]
    ELSE Raised

\* servers that accept a connection and never answer: inspect(engine) has no
\* timeout and does not return
NeverAnswers == {"postgresql://stalled"}

\* the call connector.connect() returns
Answers(c) == ~(c.class = "SQLConnector" /\ c.target \in NeverAnswers)

\* SQLConnector.connect: the engine is created lazily, inspect() needs the server
sql_connect(c) ==
    IF c.target \in DOMAIN Databases
    THEN [ok |-> TRUE,  connector |-> [c EXCEPT !.engine = "open", !.is_connected = TRUE]]
    ELSE [ok |-> FALSE, connector |-> [c EXCEPT !.engine = "open", !.is_connected = FALSE]]

\* FileConnector.connect: _parse_xml swallows its own errors and gives an empty frame
file_connect(c) ==
    IF c.target \in DOMAIN FileSystem
    THEN [ok |-> TRUE,
          connector |-> [c EXCEPT !.loaded = TRUE, !.data = FileSystem[c.target],
                                  !.is_connected = TRUE]]
    ELSE IF c.kind = "xml"
    THEN [ok |-> TRUE,
          connector |-> [c EXCEPT !.loaded = TRUE, !.data = EmptyDataFrame,
                                  !.is_connected = TRUE]]
    ELSE [ok |-> FALSE, connector |-> [c EXCEPT !.is_connected = FALSE]]

connect(c) == IF c.class = "SQLConnector" THEN sql_connect(c) ELSE file_connect(c)

\* SQLConnector.disconnect
sql_disconnect(c) ==
    [c EXCEPT !.engine = IF c.engine # "none" THEN "disposed" ELSE "none",
              !.is_connected = FALSE]

\* FileConnector.disconnect
file_disconnect(c) ==
    [c EXCEPT !.loaded = FALSE, !.data = EmptyDataFrame, !.is_connected = FALSE]

disconnect(c) == IF c.class = "SQLConnector" THEN sql_disconnect(c) ELSE file_disconnect(c)

\* the column entries of one table of a schema
SchemaColumns(columns, class) ==
    [i \in 1..Len(columns) |->
        [name |-> columns[i],
         is_sensitive |-> IF class = "SQLConnector"
                          THEN sql_is_sensitive_field(columns[i])
                          ELSE file_is_sensitive_field(columns[i]),
         is_person_identifier |-> IF class = "SQLConnector"
                                  THEN sql_is_person_identifier(columns[i])
                                  ELSE file_is_person_identifier(columns[i])]]

\* SQLConnector.get_schema
sql_get_schema(c) ==
    IF ~c.is_connected THEN <<>>
    ELSE LET db == Databases[c.target]
         IN  [t \in 1..Len(db) |->
                [k |-> db[t].k,
                 v |-> [columns |-> SchemaColumns(db[t].v.columns, c.class)]]]

\* FileConnector.get_schema
file_get_schema(c) ==
    IF ~c.is_connected \/ ~c.loaded THEN <<>>
    ELSE << [k |-> main_table,
             v |-> [columns |-> SchemaColumns(c.data.columns, c.class),
                    row_count |-> df_len(c.data)]] >>

get_schema(c) == IF c.class = "SQLConnector" THEN sql_get_schema(c) ELSE file_get_schema(c)

\* SQLConnector.list_tables
sql_list_tables(c) == IF ~c.is_connected THEN <<>> ELSE DictKeys(Databases[c.target])

\* FileConnector.list_tables
file_list_tables(c) == IF c.is_connected THEN <<main_table>> ELSE <<>>

list_tables(c) == IF c.class = "SQLConnector" THEN sql_list_tables(c) ELSE file_list_tables(c)

(***************************************************************************)
(* Regular expressions, as Series.str.contains(pat, case=False) uses them. *)
(* The patterns of this model are literal characters or an unbalanced      *)
(* parenthesis, which re.compile rejects.                                  *)
(***************************************************************************)
CountCh(s, ch) == Cardinality({i \in 1..Len(s) : s[i] = ch})

\* re.compile(pattern) raises re.error
re_error(pattern) == CountCh(pattern, "(") # CountCh(pattern, ")")

\* re.search(pattern, s, re.IGNORECASE) is not None
re_search(pattern, s) == StrIn(StrLower(pattern), StrLower(s))

\* int(s) raises ValueError
int_error(s) == s = <<>> \/ \E i \in 1..Len(s) : s[i] \notin Digits

DigitValue(ch) == CHOOSE n \in 0..9 : <<"0","1","2","3","4","5","6","7","8","9">>[n + 1] = ch

\* int(s) for a string of digits
RECURSIVE int_value(_)
int_value(s) ==
    IF s = <<>> THEN 0
    ELSE 10 * int_value(SubSeq(s, 1, Len(s) - 1)) + DigitValue(s[Len(s)])

(***************************************************************************)
(* FileConnector.execute_query                                             *)
(***************************************************************************)
kw_select == <<"s","e","l","e","c","t">>
kw_from   == <<"f","r","o","m">>
kw_where  == <<"w","h","e","r","e">>
kw_like   == <<"l","i","k","e">>
kw_limit  == <<"l","i","m","i","t">>

\* the loop over self.data.columns of the WHERE branch; acc is the frame so
\* far, or raised
RECURSIVE FileWhereLoop(_, _, _, _)
FileWhereLoop(data_columns, i, where_part, acc) ==
    IF acc.raised \/ i > Len(data_columns) THEN acc
    ELSE LET col == data_columns[i]
         IN  IF ~StrIn(StrLower(col), StrLower(where_part))
             THEN FileWhereLoop(data_columns, i + 1, where_part, acc)
             ELSE LET pieces == IF StrIn(<<"'">>, where_part)
                                THEN StrSplit(where_part, "'")
                                ELSE StrSplit(where_part, "\"")
                  IN  IF Len(pieces) < 2 THEN Raised                   \* IndexError
                      ELSE LET search_term == StrRemove(pieces[2], "%")
                               at == ColumnIndex(acc.df, col)
                           IN  IF at = 0 THEN Raised                   \* KeyError
                               ELSE IF CountCh(acc.df.columns, col) > 1
                               THEN Raised                             \* AttributeError
                               ELSE IF re_error(search_term) THEN Raised
                               ELSE FileWhereLoop(data_columns, i + 1, where_part,
                                      [raised |-> FALSE,
                                       df |-> df_rows(acc.df, [r \in 1..Len(acc.df.rows) |->
                                                 re_search(search_term,
                                                           str(acc.df.rows[r][at]))])])

\* the body of the try block: the frame returned, or raised
FileQueryAttempt(data, query) ==
    LET query_lower == StrLower(query)
    IN  IF ~(StrIn(kw_select, query_lower) /\ StrIn(kw_from, query_lower))
        THEN [raised |-> FALSE, df |-> data]
        ELSE
        LET select_part == StrStrip(StrSlice(query, StrFind(query_lower, kw_select) + 6,
                                             StrFind(query_lower, kw_from)))
            columns     == LET parts == StrSplit(select_part, ",")
                           IN  [k \in 1..Len(parts) |-> StrStrip(parts[k])]
            available   == SelectSeq(columns, LAMBDA col : col \in Range(data.columns))
            projected   == IF select_part = <<"*">> THEN data
                           ELSE df_take(data, [k \in 1..Len(available) |->
                                                  ColumnIndex(data, available[k])])
            where_part  == StrStrip(StrFrom(query, StrFind(query_lower, kw_where) + 5))
            filtered    == IF StrIn(kw_where, query_lower) /\ StrIn(kw_like, StrLower(where_part))
                           THEN FileWhereLoop(data.columns, 1, where_part,
                                              [raised |-> FALSE, df |-> projected])
                           ELSE [raised |-> FALSE, df |-> projected]
            limit_part  == StrStrip(StrFrom(query, StrFind(query_lower, kw_limit) + 5))
        IN  IF filtered.raised THEN Raised
            ELSE IF ~StrIn(kw_limit, query_lower) THEN filtered
            ELSE IF int_error(limit_part) THEN Raised                  \* ValueError
            ELSE [raised |-> FALSE, df |-> df_head(filtered.df, int_value(limit_part))]

file_execute_query(c, query) ==
    IF ~c.is_connected \/ ~c.loaded THEN EmptyDataFrame
    ELSE LET attempt == FileQueryAttempt(c.data, query)
         IN  IF attempt.raised THEN c.data ELSE attempt.df

(***************************************************************************)
(* SQLConnector.execute_query and the database that answers it             *)
(***************************************************************************)
sql_select_from == <<"S","E","L","E","C","T"," ","*"," ","F","R","O","M"," ">>
sql_where       == <<" ","W","H","E","R","E"," ">>
sql_or          == <<" ","O","R"," ">>
sql_lower_open  == <<"L","O","W","E","R","(">>
sql_like_open   == <<")"," ","L","I","K","E"," ","L","O","W","E","R","(","'","%">>
sql_like_close  == <<"%","'",")">>

\* the statement text of BaseConnector.search_person_records for one table
SearchQuery(table, person_columns, identifier) ==
    LET query_parts == [i \in 1..Len(person_columns) |->
            sql_lower_open \o person_columns[i] \o sql_like_open \o identifier
                \o sql_like_close]
        where_clause == StrJoin(sql_or, query_parts)
    IN  sql_select_from \o table \o sql_where \o where_clause

\* The server's answer to a statement: the table for SELECT * FROM <table>, the
\* matching rows for a well-formed disjunction of LOWER(col) LIKE LOWER('%p%')
\* over columns of the table (NULL matches nothing), an error for anything else.
DbExecute(db, query) ==
    LET whole == {t \in 1..Len(db) : query = sql_select_from \o db[t].k}
        pieces == StrSplit(query, "'")
        pattern == IF Len(pieces) >= 2 /\ Len(pieces[2]) >= 2
                   THEN SubSeq(pieces[2], 2, Len(pieces[2]) - 1) ELSE <<>>
        named(t) == SelectSeq(db[t].v.columns, LAMBDA col :
                        StrIn(sql_lower_open \o col \o sql_like_open, query))
        search == {t \in 1..Len(db) :
                      /\ named(t) # <<>>
                      /\ query = SearchQuery(db[t].k, named(t), pattern)}
    IN  IF whole # {} THEN [raised |-> FALSE, df |-> db[CHOOSE t \in whole : TRUE].v]
        ELSE IF search # {}
        THEN LET t == CHOOSE t \in search : TRUE
                 frame == db[t].v
             IN  [raised |-> FALSE,
                  df |-> df_rows(frame, [r \in 1..Len(frame.rows) |->
                            \E i \in 1..Len(frame.columns) :
                                /\ frame.columns[i] \in Range(named(t))
                                /\ notna(frame.rows[r][i])
                                /\ StrIn(StrLower(pattern), StrLower(frame.rows[r][i]))])]
        ELSE Raised

sql_execute_query(c, query) ==
    IF ~c.is_connected THEN EmptyDataFrame
    ELSE LET answer == DbExecute(Databases[c.target], query)
         IN  IF answer.raised THEN EmptyDataFrame ELSE answer.df

execute_query(c, query) ==
    IF c.class = "SQLConnector" THEN sql_execute_query(c, query)
    ELSE file_execute_query(c, query)

(***************************************************************************)
(* search_person_records                                                   *)
(***************************************************************************)
\* BaseConnector._get_person_identifier_columns
get_person_identifier_columns(c, table_name) ==
    LET schema == get_schema(c)
    IN  IF DictHas(schema, table_name)
        THEN LET columns == DictGet(schema, table_name).columns
                 person  == SelectSeq(columns, LAMBDA col :
                                AnyIn(BasePersonIdentifiers, StrLower(col.name)))
             IN  [i \in 1..Len(person) |-> person[i].name]
        ELSE <<>>

\* BaseConnector.search_person_records: the loop over the tables from table i on.
\* Nothing in the loop body raises for the SQL connector, whose execute_query,
\* get_schema and list_tables catch their own errors.
RECURSIVE BaseSearchLoop(_, _, _, _, _)
BaseSearchLoop(c, identifier, tables, i, results) ==
    IF i > Len(tables) THEN results
    ELSE LET table == tables[i]
             person_columns == get_person_identifier_columns(c, table)
             df == execute_query(c, SearchQuery(table, person_columns, identifier))
         IN  IF person_columns # <<>> /\ ~df_empty(df)
             THEN BaseSearchLoop(c, identifier, tables, i + 1,
                      DictSet(results, table, filter_sensitive_fields(df, table)))
             ELSE BaseSearchLoop(c, identifier, tables, i + 1, results)

base_search_person_records(c, identifier) ==
    [raised |-> FALSE, results |-> BaseSearchLoop(c, identifier, list_tables(c), 1, <<>>)]

\* FileConnector.search_person_records: str.contains compiles the identifier
\* as a regular expression, and its error is not caught here
file_search_person_records(c, identifier) ==
    IF ~c.is_connected \/ ~c.loaded THEN [raised |-> FALSE, results |-> <<>>]
    ELSE LET person_columns == SelectSeq(c.data.columns, file_is_person_identifier)
             mask == [r \in 1..Len(c.data.rows) |->
                         \E i \in 1..Len(c.data.columns) :
                             /\ c.data.columns[i] \in Range(person_columns)
                             /\ re_search(identifier, str(c.data.rows[r][i]))]
         IN  IF person_columns = <<>> THEN [raised |-> FALSE, results |-> <<>>]
             ELSE IF re_error(identifier) THEN Raised
             ELSE IF \E r \in 1..Len(c.data.rows) : mask[r]
             THEN [raised |-> FALSE,
                   results |-> << [k |-> main_table,
                                   v |-> filter_sensitive_fields(
                                            df_rows(c.data, mask), main_table)] >>]
             ELSE [raised |-> FALSE, results |-> <<>>]

search_person_records(c, identifier) ==
    IF c.class = "SQLConnector" THEN base_search_person_records(c, identifier)
    ELSE file_search_person_records(c, identifier)

(***************************************************************************)
(* SearchService.group_results_by_person                                   *)
(***************************************************************************)
\* the mutant: the value is lower-cased but not stripped
PersonKey_NoStrip(df, person_columns, row) ==
    LET usable == {i \in 1..Len(df.columns) :
                      /\ df.columns[i] \in Range(person_columns)
                      /\ notna(row[i])
                      /\ StrStrip(str(row[i])) # <<>>}
    IN  IF usable = {} THEN <<>>
        ELSE StrLower(str(row[CHOOSE i \in usable : \A j \in usable : i <= j]))

\* the person key of one row: the first person column, in column order, whose
\* cell is not NaN and not blank; <<>> (None) when there is none
PersonKey(df, person_columns, row) ==
    LET usable == {i \in 1..Len(df.columns) :
                      /\ df.columns[i] \in Range(person_columns)
                      /\ notna(row[i])
                      /\ StrStrip(str(row[i])) # <<>>}
    IN  IF usable = {} THEN <<>>
        ELSE StrLower(StrStrip(str(row[CHOOSE i \in usable : \A j \in usable : i <= j])))

\* the loop over the rows of one table, from row r on
RECURSIVE GroupRows(_, _, _, _, _, _)
GroupRows(person_groups, data_source_name, table_name, df, person_columns, r) ==
    IF r > Len(df.rows) THEN person_groups
    ELSE LET row == df.rows[r]
             person_key == PersonKey(df, person_columns, row)
             record == [data_source |-> data_source_name, table |-> table_name,
                        record |-> [columns |-> df.columns, cells |-> row],
                        person_identifier |-> person_key]
             before == IF DictHas(person_groups, person_key)
                       THEN DictGet(person_groups, person_key) ELSE <<>>
         IN  IF person_key # <<>>
             THEN GroupRows(DictSet(person_groups, person_key, Append(before, record)),
                            data_source_name, table_name, df, person_columns, r + 1)
             ELSE GroupRows(person_groups, data_source_name, table_name, df,
                            person_columns, r + 1)

\* the loop over the tables of one source, from table t on
RECURSIVE GroupTables(_, _, _, _)
GroupTables(person_groups, data_source_name, tables, t) ==
    IF t > Len(tables) THEN person_groups
    ELSE LET df == tables[t].v
             person_columns == SelectSeq(df.columns, LAMBDA col :
                                   AnyIn(FilePersonIdentifiers, StrLower(col)))
         IN  IF df_empty(df) \/ person_columns = <<>>
             THEN GroupTables(person_groups, data_source_name, tables, t + 1)
             ELSE GroupTables(GroupRows(person_groups, data_source_name, tables[t].k,
                                        df, person_columns, 1),
                              data_source_name, tables, t + 1)

\* the loop over the sources, from source s on
RECURSIVE GroupSources(_, _, _)
GroupSources(person_groups, search_results, s) ==
    IF s > Len(search_results) THEN person_groups
    ELSE GroupSources(GroupTables(person_groups, search_results[s].k,
                                  search_results[s].v, 1),
                      search_results, s + 1)

group_results_by_person(search_results) == GroupSources(<<>>, search_results, 1)

(***************************************************************************)
(* The data source table and the calls made on the services                *)
(***************************************************************************)
\* Bounds of the model
MaxSources  == 2    \* rows of the data source table
MaxDbFaults == 1    \* failures of the persistence collaborator within one call

\* The descriptors a data source row may hold (what json.loads gives back from
\* its connection_string).  Two rows may carry the same name: the name column
\* is not unique.  A row's type is free text, and a file or a server can go
\* away after the row was stored.
Catalogue == <<
    [name |-> "hr",      type |-> "csv",      file_path |-> "data/hr.csv",
     connection_string |-> ""],
    [name |-> "crm",     type |-> "csv",      file_path |-> "data/crm.csv",
     connection_string |-> ""],
    [name |-> "crm",     type |-> "json",     file_path |-> "data/leads.json",
     connection_string |-> ""],
    [name |-> "erp",     type |-> "postgres", file_path |-> "",
     connection_string |-> "postgresql://erp"],
    [name |-> "archive", type |-> "logs",     file_path |-> "",
     connection_string |-> ""],
    [name |-> "gone",    type |-> "csv",      file_path |-> "data/gone.csv",
     connection_string |-> ""] >>

\* the data source tables of the model: up to MaxSources different descriptors,
\* in any order, with ids 1, 2, ...
Stores ==
    LET picks == UNION {[1..n -> 1..Len(Catalogue)] : n \in 0..MaxSources}
    IN  {[k \in 1..Len(p) |-> [id |-> k, name |-> Catalogue[p[k]].name,
                                is_active |-> TRUE, config |-> Catalogue[p[k]]]] :
            p \in {q \in picks : \A a, b \in 1..Len(q) : a # b => q[a] # q[b]}}

id_jane   == <<"j","a","n","e">>
id_c100   == <<"c","1","0","0">>
id_C100sp == <<"C","1","0","0"," ">>
id_paren  == <<"(">>

Identifiers == {id_jane, id_c100, id_C100sp, id_paren}

Queries == {
    <<"S","E","L","E","C","T"," ","*"," ","F","R","O","M"," ","m","a","i","n","_","t","a","b","l","e">>,
    <<"S","E","L","E","C","T"," ","*"," ","F","R","O","M"," ","m","a","i","n","_","t","a","b","l","e",
      " ","W","H","E","R","E"," ","n","a","m","e"," ","L","I","K","E"," ","'","%","z","z","z","%","'">>,
    <<"S","E","L","E","C","T"," ","n","a","m","e",","," ","s","s","n"," ","F","R","O","M"," ",
      "m","a","i","n","_","t","a","b","l","e"," ","L","I","M","I","T"," ","1">>,
    <<"S","E","L","E","C","T"," ","s","s","n"," ","F","R","O","M"," ","m","a","i","n","_","t","a","b","l","e",
      " ","W","H","E","R","E"," ","n","a","m","e"," ","L","I","K","E"," ","'","%","j","a","n","e","%","'">>,
    <<"S","E","L","E","C","T"," ","*"," ","F","R","O","M"," ","c","u","s","t","o","m","e","r","s">>,
    <<"S","H","O","W"," ","T","A","B","L","E","S">> }

UserIds == {7}

VARIABLES
    store,                 \* the data source table
    search_sessions,       \* the search session table
    audit_log,             \* the audit log table
    op,                    \* the call in progress, "" before it
    pc,                    \* where the call stands
    user_id, identifier, query, data_source_id,   \* its arguments
    data_sources,          \* global_search: the ids to visit
    cursor,                \* global_search: the position in data_sources
    data_source,           \* the row found by get_data_source_by_id
    connectors,            \* every connector the call has created, the last one current
    results,               \* what the current connector returned
    all_results, total_records, data_sources_queried, search_session_id,
    person_groups,         \* get_person_provenance: the groups of the search results
    result,                \* what the call returned, or that it raised
    outcome,               \* global_search: how each visited id ended
    audit_failed,          \* which audit steps of the call failed
    db_faults,             \* persistence failures so far
    frame, filtered,       \* the frame given to filter_sensitive_fields, and its results
    statements,            \* the statements a connector sent to its database in the last call
    schema_mappings,       \* the schema mapping table
    fs,                    \* the files that exist now, with their content
    last_schema            \* per data source id, the schema its last successful connect gave

vars == <<store, search_sessions, audit_log, op, pc, user_id, identifier, query,
          data_source_id, data_sources, cursor, data_source, connectors, results,
          all_results, total_records, data_sources_queried, search_session_id,
          person_groups, result, outcome, audit_failed, db_faults, frame, filtered,
          statements, schema_mappings, fs, last_schema>>

callArgs   == <<op, user_id, identifier, query, data_source_id>>
accum      == <<all_results, total_records, data_sources_queried>>
\* what no call on the search service changes
filterVars == <<store, frame, filtered, statements, schema_mappings, fs, last_schema>>
\* what only the calls on the data source service change
schemaVars == <<schema_mappings, fs, last_schema>>

NoRow == [id |-> 0]
NoResult == [returned |-> FALSE]

\* the state of a process that has made no call yet
Idle ==
    /\ search_sessions = <<>> /\ audit_log = <<>>
    /\ op = "" /\ pc = "idle"
    /\ user_id = 0 /\ identifier = <<>> /\ query = <<>> /\ data_source_id = 0
    /\ data_sources = <<>> /\ cursor = 0 /\ data_source = NoRow
    /\ connectors = <<>> /\ results = <<>>
    /\ all_results = <<>> /\ total_records = 0 /\ data_sources_queried = <<>>
    /\ search_session_id = 0 /\ person_groups = <<>>
    /\ result = NoResult /\ outcome = <<>> /\ audit_failed = {} /\ db_faults = 0

\* nothing sent, no mapping stored, the files as they are at the start
Untouched ==
    /\ statements = <<>> /\ schema_mappings = <<>>
    /\ fs = FileSystem /\ last_schema = <<>>

Init ==
    /\ store \in Stores
    /\ Idle
    /\ frame = EmptyDataFrame /\ filtered = <<>>
    /\ Untouched

(***************************************************************************)
(* The persistence and audit collaborators                                 *)
(***************************************************************************)
\* DataSourceService.get_all_data_sources
get_all_data_sources == SelectSeq(store, LAMBDA ds : ds.is_active)

\* DataSourceService.get_data_source_by_id: the row, whether active or not
get_data_source_by_id(id) ==
    IF \E k \in 1..Len(store) : store[k].id = id
    THEN store[CHOOSE k \in 1..Len(store) : store[k].id = id]
    ELSE NoRow

\* a call on the persistence collaborator may fail, MaxDbFaults times at most
DbMayFail == db_faults < MaxDbFaults

\* utils.audit.log_action: the record is stored, or the failure is swallowed
log_action(ok, user, action, details) ==
    /\ audit_log' = IF ok
                    THEN Append(audit_log, [user_id |-> user, action |-> action,
                                            details |-> details])
                    ELSE audit_log
    /\ audit_failed' = IF ok THEN audit_failed ELSE audit_failed \cup {"log_action"}

\* the current connector
connector == connectors[Len(connectors)]

SetConnector(c) == connectors' = [connectors EXCEPT ![Len(connectors)] = c]

(***************************************************************************)
(* SearchService.global_search                                             *)
(***************************************************************************)
\* the call global_search(identifier, user_id): data_sources is None
CallGlobalSearch(u, ident) ==
    /\ pc = "idle"
    /\ op' = "global_search" /\ user_id' = u /\ identifier' = ident
    /\ pc' = "gs_resolve"
    /\ UNCHANGED <<query, data_source_id, data_sources, cursor, data_source, connectors,
                   results, accum, search_session_id, person_groups, result, outcome,
                   audit_failed, db_faults, search_sessions, audit_log, filterVars>>

\* the call global_search(identifier, user_id, ids)
CallGlobalSearchOf(u, ident, ids) ==
    /\ pc = "idle"
    /\ op' = "global_search" /\ user_id' = u /\ identifier' = ident
    /\ data_sources' = ids /\ cursor' = 1
    /\ pc' = IF ids = <<>> THEN "gs_session" ELSE "gs_lookup"
    /\ UNCHANGED <<query, data_source_id, data_source, connectors,
                   results, accum, search_session_id, person_groups, result, outcome,
                   audit_failed, db_faults, search_sessions, audit_log, filterVars>>

\* the mutant: the outer except clause raises again
GlobalSearchError_Reraise ==
    [returned |-> TRUE, raised |-> TRUE,
     value |-> [error |-> TRUE, results |-> <<>>, total_records |-> 0,
                data_sources_queried |-> <<>>]]

\* the value the outer except clause returns
GlobalSearchError ==
    [returned |-> TRUE, raised |-> FALSE,
     value |-> [error |-> TRUE, results |-> <<>>, total_records |-> 0,
                data_sources_queried |-> <<>>]]

\* data_sources = [ds.id for ds in get_all_data_sources()]; a failure of the
\* query is caught by the outer except clause
GsResolve ==
    /\ pc = "gs_resolve"
    /\ \/ /\ data_sources' = [k \in 1..Len(get_all_data_sources) |->
                                 get_all_data_sources[k].id]
          /\ cursor' = 1
          /\ pc' = IF get_all_data_sources = <<>> THEN "gs_session" ELSE "gs_lookup"
          /\ UNCHANGED <<result, db_faults>>
       \/ /\ DbMayFail
          /\ db_faults' = db_faults + 1
          /\ result' = GlobalSearchError
          /\ pc' = "done"
          /\ UNCHANGED <<data_sources, cursor>>
    /\ UNCHANGED <<callArgs, data_source, connectors, results, accum, search_session_id,
                   person_groups, outcome, audit_failed, search_sessions, audit_log,
                   filterVars>>

\* the next iteration of the for loop, or the code after it
NextSource ==
    /\ cursor' = cursor + 1
    /\ pc' = IF cursor + 1 > Len(data_sources) THEN "gs_session" ELSE "gs_lookup"

\* the mutant: the except clause leaves the loop
OnSourceError_Break ==
    /\ cursor' = cursor + 1
    /\ pc' = "gs_session"

\* the except clause of the loop body: print and continue
OnSourceError == NextSource

\* get_data_source_by_id, json.loads and create_connector for the current id
GsLookup ==
    /\ pc = "gs_lookup"
    /\ LET row  == get_data_source_by_id(data_sources[cursor])
           made == create_connector(row.config)
       IN  \/ /\ DbMayFail
              /\ db_faults' = db_faults + 1
              /\ outcome' = Append(outcome, "lookup_raised")
              /\ OnSourceError
              /\ UNCHANGED <<data_source, connectors>>
           \/ /\ row = NoRow
              /\ outcome' = Append(outcome, "not_found")
              /\ NextSource
              /\ UNCHANGED <<data_source, connectors, db_faults>>
           \/ /\ row # NoRow /\ made.raised
              /\ data_source' = row
              /\ outcome' = Append(outcome, "create_raised")
              /\ OnSourceError
              /\ UNCHANGED <<connectors, db_faults>>
           \/ /\ row # NoRow /\ ~made.raised
              /\ data_source' = row
              /\ connectors' = Append(connectors, made.connector)
              /\ pc' = "gs_connect"
              /\ UNCHANGED <<cursor, outcome, db_faults>>
    /\ UNCHANGED <<callArgs, data_sources, results, accum, search_session_id,
                   person_groups, result, audit_failed, search_sessions, audit_log,
                   filterVars>>

\* the mutant: the value connect returns is not looked at
GsConnect_SearchAnyway ==
    /\ pc = "gs_connect"
    /\ Answers(connector)
    /\ SetConnector(connect(connector).connector)
    /\ pc' = "gs_search"
    /\ UNCHANGED <<cursor, outcome>>
    /\ UNCHANGED <<callArgs, data_sources, data_source, results, accum,
                   search_session_id, person_groups, result, audit_failed, db_faults,
                   search_sessions, audit_log, filterVars>>

\* if connector.connect():
GsConnect ==
    /\ pc = "gs_connect"
    /\ Answers(connector)
    /\ SetConnector(connect(connector).connector)
    /\ IF connect(connector).ok
       THEN pc' = "gs_search" /\ UNCHANGED <<cursor, outcome>>
       ELSE outcome' = Append(outcome, "connect_failed") /\ NextSource
    /\ UNCHANGED <<callArgs, data_sources, data_source, results, accum,
                   search_session_id, person_groups, result, audit_failed, db_faults,
                   search_sessions, audit_log, filterVars>>

\* results = connector.search_person_records(identifier)
GsSearch ==
    /\ pc = "gs_search"
    /\ LET found == search_person_records(connector, identifier)
       IN  IF found.raised
           THEN /\ outcome' = Append(outcome, "search_raised")
                /\ OnSourceError
                /\ UNCHANGED results
           ELSE /\ results' = found.results
                /\ pc' = "gs_disconnect"
                /\ UNCHANGED <<cursor, outcome>>
    /\ UNCHANGED <<callArgs, data_sources, data_source, connectors, accum,
                   search_session_id, person_groups, result, audit_failed, db_faults,
                   search_sessions, audit_log, filterVars>>

\* connector.disconnect()
GsDisconnect ==
    /\ pc = "gs_disconnect"
    /\ SetConnector(disconnect(connector))
    /\ pc' = "gs_aggregate"
    /\ UNCHANGED <<callArgs, data_sources, cursor, data_source, results, accum,
                   search_session_id, person_groups, result, outcome, audit_failed,
                   db_faults, search_sessions, audit_log, filterVars>>

\* sum(len(df) for df in tables.values())
RECURSIVE RowCount(_)
RowCount(tbls) ==
    IF tbls = <<>> THEN 0 ELSE df_len(tbls[1].v) + RowCount(Tail(tbls))

\* if results: store them under the source's name, note the name, count the rows
GsAggregate ==
    /\ pc = "gs_aggregate"
    /\ IF results # <<>>
       THEN /\ all_results' = DictSet(all_results, data_source.name, results)
            /\ data_sources_queried' = Append(data_sources_queried, data_source.name)
            /\ total_records' = total_records + RowCount(results)
       ELSE UNCHANGED accum
    /\ outcome' = Append(outcome, "ok")
    /\ NextSource
    /\ UNCHANGED <<callArgs, data_sources, data_source, connectors, results,
                   search_session_id, person_groups, result, audit_failed, db_faults,
                   search_sessions, audit_log, filterVars>>

\* the mutant: the failure reaches the outer except clause
OnSessionError_Propagate ==
    /\ audit_failed' = audit_failed \cup {"search_session"}
    /\ result' = GlobalSearchError
    /\ pc' = "done"
    /\ UNCHANGED <<search_sessions, search_session_id>>

\* the except clause around _create_search_session: print a warning and go on
\* with search_session = None
OnSessionError ==
    /\ audit_failed' = audit_failed \cup {"search_session"}
    /\ pc' = "gs_log"
    /\ UNCHANGED <<search_sessions, search_session_id, result>>

\* _create_search_session inside its own try: the new session's id, or None (0)
\* when the session could not be stored
GsSession ==
    /\ pc = "gs_session"
    /\ \/ /\ search_sessions' = Append(search_sessions,
                 [id |-> Len(search_sessions) + 1, user_id |-> user_id,
                  search_query |-> identifier, results_count |-> total_records,
                  data_sources_queried |-> data_sources_queried])
          /\ search_session_id' = Len(search_sessions) + 1
          /\ pc' = "gs_log"
          /\ UNCHANGED <<audit_failed, result>>
       \/ OnSessionError
    /\ UNCHANGED <<store, callArgs, data_sources, cursor, data_source, connectors, results,
                   accum, person_groups, outcome, db_faults, audit_log,
                   frame, filtered, statements, schemaVars>>

\* log_action(user_id, "global_search", ...) inside its own try
GsLog ==
    /\ pc = "gs_log"
    /\ \E ok \in BOOLEAN :
          log_action(ok, user_id, "global_search",
                     [identifier |-> identifier, results_count |-> total_records,
                      data_sources_queried |-> data_sources_queried,
                      search_session_id |-> search_session_id])
    /\ pc' = "gs_return"
    /\ UNCHANGED <<callArgs, data_sources, cursor, data_source, connectors, results,
                   accum, search_session_id, person_groups, result, outcome, db_faults,
                   search_sessions, filterVars>>

\* the return statement of the try block
GsReturn ==
    /\ pc = "gs_return"
    /\ result' = [returned |-> TRUE, raised |-> FALSE,
                  value |-> [error |-> FALSE, results |-> all_results,
                             total_records |-> total_records,
                             data_sources_queried |-> data_sources_queried,
                             search_session_id |-> search_session_id]]
    /\ pc' = IF op = "get_person_provenance" THEN "pp_group" ELSE "done"
    /\ UNCHANGED <<callArgs, data_sources, cursor, data_source, connectors, results,
                   accum, search_session_id, person_groups, outcome, audit_failed,
                   db_faults, search_sessions, audit_log, filterVars>>

(***************************************************************************)
(* SearchService.get_person_provenance                                     *)
(***************************************************************************)
\* the call get_person_provenance(person_identifier, user_id): it starts with
\* global_search(person_identifier, user_id)
CallGetPersonProvenance(u, ident) ==
    /\ pc = "idle"
    /\ op' = "get_person_provenance" /\ user_id' = u /\ identifier' = ident
    /\ pc' = "gs_resolve"
    /\ UNCHANGED <<query, data_source_id, data_sources, cursor, data_source, connectors,
                   results, accum, search_session_id, person_groups, result, outcome,
                   audit_failed, db_faults, search_sessions, audit_log, filterVars>>

\* person_groups.get(person_identifier.lower(), [])
ProvenanceRecords(groups, person_identifier) ==
    IF DictHas(groups, StrLower(person_identifier))
    THEN DictGet(groups, StrLower(person_identifier))
    ELSE <<>>

\* group the search results and pick the records of the person
PpGroup ==
    /\ pc = "pp_group"
    /\ person_groups' = group_results_by_person(result.value.results)
    /\ result' = [returned |-> TRUE, raised |-> FALSE,
                  value |-> [error |-> FALSE,
                             person_identifier |-> identifier,
                             total_records |-> result.value.total_records,
                             data_sources |-> result.value.data_sources_queried,
                             records |-> ProvenanceRecords(person_groups', identifier)]]
    /\ pc' = "done"
    /\ UNCHANGED <<callArgs, data_sources, cursor, data_source, connectors, results,
                   accum, search_session_id, outcome, audit_failed, db_faults,
                   search_sessions, audit_log, filterVars>>

(***************************************************************************)
(* SearchService.search_by_data_source and execute_custom_query: one data  *)
(* source, and every failure ends the call with {"error": ...}             *)
(***************************************************************************)
ErrorResult == [returned |-> TRUE, raised |-> FALSE, value |-> [error |-> TRUE]]

\* the call search_by_data_source(data_source_id, identifier, user_id)
CallSearchByDataSource(id, ident, u) ==
    /\ pc = "idle"
    /\ op' = "search_by_data_source"
    /\ data_source_id' = id /\ identifier' = ident /\ user_id' = u
    /\ pc' = "one_lookup"
    /\ UNCHANGED <<query, data_sources, cursor, data_source, connectors,
                   results, accum, search_session_id, person_groups, result, outcome,
                   audit_failed, db_faults, search_sessions, audit_log, filterVars>>

\* the call execute_custom_query(data_source_id, query, user_id)
CallExecuteCustomQuery(id, q, u) ==
    /\ pc = "idle"
    /\ op' = "execute_custom_query"
    /\ data_source_id' = id /\ query' = q /\ user_id' = u
    /\ pc' = "one_lookup"
    /\ UNCHANGED <<identifier, data_sources, cursor, data_source, connectors,
                   results, accum, search_session_id, person_groups, result, outcome,
                   audit_failed, db_faults, search_sessions, audit_log, filterVars>>

\* get_data_source_by_id, json.loads and create_connector; what raises is
\* caught by the except clause of the method
OneLookup ==
    /\ pc = "one_lookup"
    /\ LET row  == get_data_source_by_id(data_source_id)
           made == create_connector(row.config)
       IN  \/ /\ DbMayFail
              /\ db_faults' = db_faults + 1
              /\ result' = ErrorResult /\ pc' = "done"
              /\ UNCHANGED <<data_source, connectors>>
           \/ /\ row = NoRow
              /\ result' = ErrorResult /\ pc' = "done"
              /\ UNCHANGED <<data_source, connectors, db_faults>>
           \/ /\ row # NoRow /\ made.raised
              /\ data_source' = row
              /\ result' = ErrorResult /\ pc' = "done"
              /\ UNCHANGED <<connectors, db_faults>>
           \/ /\ row # NoRow /\ ~made.raised
              /\ data_source' = row
              /\ connectors' = Append(connectors, made.connector)
              /\ pc' = "one_connect"
              /\ UNCHANGED <<result, db_faults>>
    /\ UNCHANGED <<callArgs, data_sources, cursor, results, accum, search_session_id,
                   person_groups, outcome, audit_failed, search_sessions, audit_log,
                   filterVars>>

\* if not connector.connect(): return {"error": ...}
OneConnect ==
    /\ pc = "one_connect"
    /\ Answers(connector)
    /\ SetConnector(connect(connector).connector)
    /\ IF connect(connector).ok
       THEN pc' = "one_run" /\ UNCHANGED result
       ELSE result' = ErrorResult /\ pc' = "done"
    /\ UNCHANGED <<callArgs, data_sources, cursor, data_source, results, accum,
                   search_session_id, person_groups, outcome, audit_failed, db_faults,
                   search_sessions, audit_log, filterVars>>

\* search_by_data_source: results = connector.search_person_records(identifier)
SbSearch ==
    /\ pc = "one_run" /\ op = "search_by_data_source"
    /\ LET found == search_person_records(connector, identifier)
       IN  IF found.raised
           THEN result' = ErrorResult /\ pc' = "done" /\ UNCHANGED results
           ELSE results' = found.results /\ pc' = "one_disconnect" /\ UNCHANGED result
    /\ UNCHANGED <<callArgs, data_sources, cursor, data_source, connectors, accum,
                   search_session_id, person_groups, outcome, audit_failed, db_faults,
                   search_sessions, audit_log, filterVars>>

\* execute_custom_query: results = connector.execute_query(query)
CqExecute ==
    /\ pc = "one_run" /\ op = "execute_custom_query"
    /\ results' = execute_query(connector, query)
    /\ pc' = "one_disconnect"
    /\ UNCHANGED <<callArgs, data_sources, cursor, data_source, connectors, accum,
                   search_session_id, person_groups, result, outcome, audit_failed,
                   db_faults, search_sessions, audit_log, filterVars>>

\* connector.disconnect()
OneDisconnect ==
    /\ pc = "one_disconnect"
    /\ SetConnector(disconnect(connector))
    /\ pc' = "one_finish"
    /\ UNCHANGED <<callArgs, data_sources, cursor, data_source, results, accum,
                   search_session_id, person_groups, result, outcome, audit_failed,
                   db_faults, search_sessions, audit_log, filterVars>>

\* search_by_data_source: count, log_action and return
SbFinish ==
    /\ pc = "one_finish" /\ op = "search_by_data_source"
    /\ \E ok \in BOOLEAN :
          log_action(ok, user_id, "data_source_search",
                     [data_source_id |-> data_source_id,
                      data_source_name |-> data_source.name,
                      identifier |-> identifier, results_count |-> RowCount(results)])
    /\ result' = [returned |-> TRUE, raised |-> FALSE,
                  value |-> [error |-> FALSE, results |-> results,
                             total_records |-> RowCount(results),
                             data_source_name |-> data_source.name]]
    /\ pc' = "done"
    /\ UNCHANGED <<callArgs, data_sources, cursor, data_source, connectors, results,
                   accum, search_session_id, person_groups, outcome, db_faults,
                   search_sessions, filterVars>>

\* execute_custom_query: filter_sensitive_fields, log_action and return
CqFinish ==
    /\ pc = "one_finish" /\ op = "execute_custom_query"
    /\ LET redacted == filter_sensitive_fields(results, custom_query)
       IN  /\ \E ok \in BOOLEAN :
                 log_action(ok, user_id, "custom_query",
                            [data_source_id |-> data_source_id,
                             data_source_name |-> data_source.name,
                             query |-> query, results_count |-> df_len(redacted)])
           /\ result' = [returned |-> TRUE, raised |-> FALSE,
                         value |-> [error |-> FALSE, results |-> redacted,
                                    total_records |-> df_len(redacted),
                                    data_source_name |-> data_source.name]]
    /\ pc' = "done"
    /\ UNCHANGED <<callArgs, data_sources, cursor, data_source, connectors, results,
                   accum, search_session_id, person_groups, outcome, db_faults,
                   search_sessions, filterVars>>

(***************************************************************************)
(* filter_sensitive_fields on its own: any frame, filtered and filtered    *)
(* again                                                                   *)
(***************************************************************************)
MaxColumns == 2
MaxRows    == 1

col_bank_account == <<"b","a","n","k","_","a","c","c","o","u","n","t">>

ColumnPool == {col_name, col_ssn, col_Email, col_customer_email, col_city, col_bank_account}
CellPool   == {val_C100, NULL}

Frames ==
    LET headers == {h \in UNION {[1..n -> ColumnPool] : n \in 0..MaxColumns} :
                       \A a, b \in 1..Len(h) : a # b => h[a] # h[b]}
    IN  UNION {{[columns |-> h, rows |-> r] :
                  r \in UNION {[1..m -> [1..Len(h) -> CellPool]] : m \in 0..MaxRows}} :
               h \in headers}

InitFilter ==
    /\ store = <<>>
    /\ Idle
    /\ frame \in Frames /\ filtered = <<>>
    /\ Untouched

\* filter_sensitive_fields(df, table_name) on the frame, then on its own result
CallFilterSensitiveFields(table_name) ==
    /\ Len(filtered) < 2
    /\ filtered' = Append(filtered,
           filter_sensitive_fields(IF filtered = <<>> THEN frame
                                   ELSE filtered[Len(filtered)], table_name))
    /\ UNCHANGED <<store, search_sessions, audit_log, callArgs, pc, data_sources, cursor,
                   data_source, connectors, results, accum, search_session_id,
                   person_groups, result, outcome, audit_failed, db_faults, frame,
                   statements, schemaVars>>

NextFilter == \E table_name \in {main_table, custom_query} :
                 CallFilterSensitiveFields(table_name)

SpecFilter == InitFilter /\ [][NextFilter]_vars

Next ==
    \/ \E u \in UserIds, ident \in Identifiers : CallGlobalSearch(u, ident)
    \/ \E u \in UserIds, ident \in Identifiers, id \in 1..(Len(store) + 1) :
          CallGlobalSearchOf(u, ident, <<id>>)
    \/ GsResolve \/ GsLookup \/ GsConnect \/ GsSearch \/ GsDisconnect \/ GsAggregate
    \/ GsSession \/ GsLog \/ GsReturn
    \/ \E u \in UserIds, ident \in Identifiers : CallGetPersonProvenance(u, ident)
    \/ PpGroup
    \/ \E id \in 1..(Len(store) + 1), ident \in Identifiers, u \in UserIds :
          CallSearchByDataSource(id, ident, u)
    \/ \E id \in 1..(Len(store) + 1), q \in Queries, u \in UserIds :
          CallExecuteCustomQuery(id, q, u)
    \/ OneLookup \/ OneConnect \/ SbSearch \/ CqExecute \/ OneDisconnect
    \/ SbFinish \/ CqFinish

Spec == Init /\ [][Next]_vars

(***************************************************************************)
(* The connector factory and one connector on its own: a connector is      *)
(* built from a descriptor and its methods are called in any order.        *)
(***************************************************************************)
MaxCalls == 3    \* method calls on the connector built

\* the mutant: disconnect is skipped when connect failed
test_connection_DisconnectOnSuccess(config) ==
    LET made == create_connector(config)
    IN  IF made.raised
        THEN [success |-> FALSE, message |-> "Connection error", built |-> <<>>]
        ELSE LET tried == connect(made.connector)
             IN  IF tried.ok
                 THEN [success |-> TRUE, message |-> "Connection successful",
                       built |-> <<disconnect(tried.connector)>>]
                 ELSE [success |-> FALSE, message |-> "Failed to connect",
                       built |-> <<tried.connector>>]

\* ConnectorFactory.test_connection: the pair returned, and the connector it
\* built as the call leaves it (none when create_connector raised)
test_connection(config) ==
    LET made == create_connector(config)
    IN  IF made.raised
        THEN [success |-> FALSE, message |-> "Connection error", built |-> <<>>]
        ELSE LET tried == connect(made.connector)
             IN  [success |-> tried.ok,
                  message |-> IF tried.ok THEN "Connection successful"
                              ELSE "Failed to connect",
                  built |-> <<disconnect(tried.connector)>>]

\* the statements search_person_records sends to the database, table by table
RECURSIVE SearchStatements(_, _, _, _)
SearchStatements(c, ident, table_names, i) ==
    IF i > Len(table_names) THEN <<>>
    ELSE LET person_columns == get_person_identifier_columns(c, table_names[i])
         IN  (IF person_columns # <<>> /\ c.is_connected
              THEN <<[text |-> SearchQuery(table_names[i], person_columns, ident),
                      parameters |-> <<>>]>>
              ELSE <<>>)
             \o SearchStatements(c, ident, table_names, i + 1)

\* the statements one call sends: SQLConnector.execute_query passes the text
\* it is given to connection.execute with no bound parameter
search_statements(c, ident) ==
    IF c.class = "SQLConnector" THEN SearchStatements(c, ident, list_tables(c), 1)
    ELSE <<>>

query_statements(c, q) ==
    IF c.class = "SQLConnector" /\ c.is_connected
    THEN <<[text |-> q, parameters |-> <<>>]>>
    ELSE <<>>

\* descriptors beyond the catalogue: a file with a row without a name, an xml
\* file that does not exist, a database server that cannot be reached, a kind
\* the factory does not know
Descriptors ==
    Range(Catalogue) \cup {
        [name |-> "staff", type |-> "csv",       file_path |-> "data/staff.csv",
         connection_string |-> ""],
        [name |-> "feed", type |-> "xml",        file_path |-> "data/gone.xml",
         connection_string |-> ""],
        [name |-> "dwh",  type |-> "mysql",      file_path |-> "",
         connection_string |-> "mysql+pymysql://dwh"],
        [name |-> "old",  type |-> "relational", file_path |-> "",
         connection_string |-> "unknown://old"] }

id_quote == <<"o","'","x">>
id_nan   == <<"n","a","n">>
ConnectorIdentifiers == {id_jane, id_c100, id_paren, id_quote, id_nan}

InitConnector ==
    /\ store = <<>>
    /\ Idle
    /\ frame = EmptyDataFrame /\ filtered = <<>>
    /\ Untouched

\* what the calls on one connector leave alone
connectorRest == <<store, search_sessions, audit_log, user_id, data_source_id, data_sources,
                   results, accum, search_session_id, person_groups, outcome,
                   audit_failed, db_faults, frame, filtered, schemaVars>>

\* ConnectorFactory.create_connector(config)
CallCreateConnector(config) ==
    /\ pc = "idle"
    /\ LET made == create_connector(config)
       IN  /\ result' = IF made.raised
                        THEN [returned |-> TRUE, raised |-> TRUE]
                        ELSE [returned |-> TRUE, raised |-> FALSE, value |-> made.connector]
           /\ connectors' = IF made.raised THEN <<>> ELSE <<made.connector>>
           /\ pc' = IF made.raised THEN "done" ELSE "connector"
    /\ op' = "create_connector"
    /\ data_source' = [id |-> 0, config |-> config]
    /\ UNCHANGED <<identifier, query, cursor, statements, connectorRest>>

\* ConnectorFactory.test_connection(config)
CallTestConnection(config) ==
    /\ pc = "idle"
    /\ LET tested == test_connection(config)
       IN  /\ result' = [returned |-> TRUE, raised |-> FALSE,
                         value |-> [success |-> tested.success, message |-> tested.message]]
           /\ connectors' = tested.built
    /\ op' = "test_connection" /\ pc' = "done"
    /\ data_source' = [id |-> 0, config |-> config]
    /\ UNCHANGED <<identifier, query, cursor, statements, connectorRest>>

\* a method call on the connector built: what every such call does
MethodCall(name) ==
    /\ pc = "connector" /\ cursor < MaxCalls
    /\ op' = name /\ cursor' = cursor + 1
    /\ UNCHANGED <<pc, data_source, connectorRest>>

CallConnect ==
    /\ MethodCall("connect")
    /\ LET tried == connect(connector)
       IN  /\ result' = [returned |-> TRUE, raised |-> FALSE, value |-> tried.ok]
           /\ SetConnector(tried.connector)
    /\ UNCHANGED <<identifier, query, statements>>

CallDisconnect ==
    /\ MethodCall("disconnect")
    /\ result' = [returned |-> TRUE, raised |-> FALSE, value |-> <<>>]
    /\ SetConnector(disconnect(connector))
    /\ UNCHANGED <<identifier, query, statements>>

CallGetSchema ==
    /\ MethodCall("get_schema")
    /\ result' = [returned |-> TRUE, raised |-> FALSE, value |-> get_schema(connector)]
    /\ UNCHANGED <<connectors, identifier, query, statements>>

CallListTables ==
    /\ MethodCall("list_tables")
    /\ result' = [returned |-> TRUE, raised |-> FALSE, value |-> list_tables(connector)]
    /\ UNCHANGED <<connectors, identifier, query, statements>>

CallSearchPersonRecords(ident) ==
    /\ MethodCall("search_person_records")
    /\ identifier' = ident
    /\ LET found == search_person_records(connector, ident)
       IN  result' = IF found.raised
                     THEN [returned |-> TRUE, raised |-> TRUE]
                     ELSE [returned |-> TRUE, raised |-> FALSE, value |-> found.results]
    /\ statements' = search_statements(connector, ident)
    /\ UNCHANGED <<connectors, query>>

CallExecuteQuery(q) ==
    /\ MethodCall("execute_query")
    /\ query' = q
    /\ result' = [returned |-> TRUE, raised |-> FALSE, value |-> execute_query(connector, q)]
    /\ statements' = query_statements(connector, q)
    /\ UNCHANGED <<connectors, identifier>>

NextConnector ==
    \/ \E config \in Descriptors : CallCreateConnector(config)
    \/ \E config \in Descriptors : CallTestConnection(config)
    \/ CallConnect \/ CallDisconnect \/ CallGetSchema \/ CallListTables
    \/ \E ident \in ConnectorIdentifiers : CallSearchPersonRecords(ident)
    \/ \E q \in Queries : CallExecuteQuery(q)

SpecConnector == InitConnector /\ [][NextConnector]_vars

(***************************************************************************)
(* DataSourceService.create_data_source and refresh_schema, while the      *)
(* files of the sources are replaced or removed between the calls.         *)
(***************************************************************************)
MaxSchemaCalls == 3    \* calls on the data source service

col_phone == <<"p","h","o","n","e">>

\* hr.csv after it was replaced: one more column
File_hr_replaced ==
    [columns |-> <<col_name, col_ssn, col_Email, col_phone>>,
     rows    |-> << <<val_JaneDoe, <<"1","2","3">>, NULL, <<"5","5","5">> >> >>]

\* FileConnector.connect, reading the files that exist now
file_connect_at(c, files) ==
    IF c.target \in DOMAIN files
    THEN [ok |-> TRUE,
          connector |-> [c EXCEPT !.loaded = TRUE, !.data = files[c.target],
                                  !.is_connected = TRUE]]
    ELSE IF c.kind = "xml"
    THEN [ok |-> TRUE,
          connector |-> [c EXCEPT !.loaded = TRUE, !.data = EmptyDataFrame,
                                  !.is_connected = TRUE]]
    ELSE [ok |-> FALSE, connector |-> [c EXCEPT !.is_connected = FALSE]]

connect_at(c, files) ==
    IF c.class = "SQLConnector" THEN sql_connect(c) ELSE file_connect_at(c, files)

\* DataSourceService._create_schema_mappings: the rows it adds for one schema
RECURSIVE MappingsOf(_, _, _)
MappingsOf(id, schema_info, t) ==
    IF t > Len(schema_info) THEN <<>>
    ELSE LET columns == schema_info[t].v.columns
         IN  [n \in 1..Len(columns) |->
                 [data_source_id |-> id, table_name |-> schema_info[t].k,
                  column_name |-> columns[n].name,
                  is_sensitive |-> columns[n].is_sensitive,
                  is_person_identifier |-> columns[n].is_person_identifier]]
             \o MappingsOf(id, schema_info, t + 1)

\* DataSourceService._create_schema_mappings: the table after the call
create_schema_mappings(mappings, id, schema_info) ==
    SelectSeq(mappings, LAMBDA m : m.data_source_id # id) \o MappingsOf(id, schema_info, 1)

\* the descriptors given to create_data_source
SchemaDescriptors == {Catalogue[1], Catalogue[4], Catalogue[5], Catalogue[6]}

InitSchema ==
    /\ store = <<>>
    /\ Idle
    /\ frame = EmptyDataFrame /\ filtered = <<>>
    /\ Untouched

\* what the calls on the data source service leave alone
schemaRest == <<search_sessions, pc, identifier, query, data_sources, data_source, results,
                accum, search_session_id, person_groups, frame, filtered, statements>>

\* a file of a source is replaced by a newer one
FileReplaced ==
    /\ "data/hr.csv" \in DOMAIN fs /\ fs["data/hr.csv"] = File_hr
    /\ fs' = [fs EXCEPT !["data/hr.csv"] = File_hr_replaced]
    /\ UNCHANGED <<store, schema_mappings, last_schema, audit_log, audit_failed, op,
                   user_id, data_source_id, connectors, result, outcome, cursor, db_faults,
                   schemaRest>>

\* a file of a source is removed
FileRemoved(path) ==
    /\ path \in DOMAIN fs
    /\ fs' = [f \in DOMAIN fs \ {path} |-> fs[f]]
    /\ UNCHANGED <<store, schema_mappings, last_schema, audit_log, audit_failed, op,
                   user_id, data_source_id, connectors, result, outcome, cursor, db_faults,
                   schemaRest>>

\* what every call on the data source service does
SchemaCall(name, u) ==
    /\ pc = "idle" /\ cursor < MaxSchemaCalls
    /\ op' = name /\ user_id' = u /\ cursor' = cursor + 1
    /\ UNCHANGED <<fs, schemaRest>>

\* the value a method of the data source service returns: (success, message)
Returned(success) == [returned |-> TRUE, raised |-> FALSE, value |-> [success |-> success]]

\* a call on the persistence collaborator fails
DbFault == DbMayFail /\ db_faults' = db_faults + 1

\* DataSourceService.create_data_source(data_source_config, created_by): the
\* row is committed before _create_schema_mappings runs, and the rollback of
\* the except clause does not undo a commit
CallCreateDataSource(config, u) ==
    /\ SchemaCall("create_data_source", u)
    /\ Len(store) < MaxSources
    /\ data_source_id' = Len(store) + 1
    /\ LET made   == create_connector(config)
           tried  == connect_at(made.connector, fs)
           schema == get_schema(tried.connector)
           row    == [id |-> Len(store) + 1, name |-> config.name, is_active |-> TRUE,
                      config |-> config, schema_info |-> schema]
       IN  IF made.raised \/ ~tried.ok
           THEN /\ result' = Returned(FALSE)
                /\ connectors' = IF made.raised THEN <<>>
                                 ELSE <<disconnect(tried.connector)>>
                /\ outcome' = <<IF made.raised THEN "create_raised" ELSE "connect_failed">>
                /\ UNCHANGED <<store, schema_mappings, last_schema, audit_log,
                               audit_failed, db_faults>>
           ELSE /\ connectors' = <<disconnect(tried.connector)>>
                /\ \/ /\ store' = Append(store, row)
                      /\ schema_mappings' = create_schema_mappings(schema_mappings,
                                                                   row.id, schema)
                      /\ last_schema' = DictSet(last_schema, row.id, schema)
                      /\ outcome' = <<"ok">>
                      /\ \E ok \in BOOLEAN :
                            log_action(ok, u, "create_data_source",
                                       <<config.name, config.type>>)
                      /\ result' = Returned(TRUE)
                      /\ UNCHANGED db_faults
                   \/ \* db.commit() of the row fails
                      /\ DbFault
                      /\ outcome' = <<"commit_failed">>
                      /\ result' = Returned(FALSE)
                      /\ UNCHANGED <<store, schema_mappings, last_schema, audit_log,
                                     audit_failed>>
                   \/ \* the row is committed, the commit of its mappings fails
                      /\ DbFault
                      /\ store' = Append(store, row)
                      /\ last_schema' = DictSet(last_schema, row.id, schema)
                      /\ outcome' = <<"mappings_failed">>
                      /\ result' = Returned(FALSE)
                      /\ UNCHANGED <<schema_mappings, audit_log, audit_failed>>

\* DataSourceService.refresh_schema(data_source_id, refreshed_by).  The row
\* comes from get_data_source_by_id, whose session is closed: assigning
\* schema_info to it and committing another session stores nothing, while
\* _create_schema_mappings writes through the new session.  The value connect
\* returns is not looked at.
CallRefreshSchema(id, u) ==
    /\ SchemaCall("refresh_schema", u)
    /\ data_source_id' = id
    /\ LET row == get_data_source_by_id(id)
       IN  \/ \* get_data_source_by_id is called outside the try block
              /\ DbFault
              /\ result' = [returned |-> TRUE, raised |-> TRUE]
              /\ outcome' = <<"lookup_raised">>
              /\ UNCHANGED <<store, schema_mappings, last_schema, audit_log,
                             audit_failed, connectors>>
           \/ /\ row = NoRow
              /\ result' = Returned(FALSE)
              /\ outcome' = <<"not_found">>
              /\ UNCHANGED <<store, schema_mappings, last_schema, audit_log,
                             audit_failed, connectors, db_faults>>
           \/ \* the except clause returns, then db.close() in the finally
              \* clause finds db unbound and raises
              /\ row # NoRow /\ create_connector(row.config).raised
              /\ result' = [returned |-> TRUE, raised |-> TRUE]
              /\ outcome' = <<"create_raised">>
              /\ UNCHANGED <<store, schema_mappings, last_schema, audit_log,
                             audit_failed, connectors, db_faults>>
           \/ /\ row # NoRow /\ ~create_connector(row.config).raised
              /\ LET made       == create_connector(row.config)
                     tried      == connect_at(made.connector, fs)
                     new_schema == get_schema(tried.connector)
                 IN  /\ connectors' = <<disconnect(tried.connector)>>
                     /\ \/ /\ outcome' = <<IF tried.ok THEN "ok" ELSE "connect_failed">>
                           /\ schema_mappings' = create_schema_mappings(
                                                     schema_mappings, id, new_schema)
                           /\ last_schema' = IF tried.ok
                                             THEN DictSet(last_schema, id, new_schema)
                                             ELSE last_schema
                           /\ \E ok \in BOOLEAN :
                                 log_action(ok, u, "refresh_schema", <<id, row.name>>)
                           /\ result' = Returned(TRUE)
                           /\ UNCHANGED <<store, db_faults>>
                        \/ \* a commit fails: the except clause returns False
                           /\ DbFault
                           /\ outcome' = <<"commit_failed">>
                           /\ result' = Returned(FALSE)
                           /\ UNCHANGED <<store, schema_mappings, last_schema,
                                          audit_log, audit_failed>>

\* the data source table with one column of the row `id` set
SetColumn(rows, id, column, v) ==
    [k \in 1..Len(rows) |-> IF rows[k].id = id
                             THEN [c \in DOMAIN rows[k] |->
                                      IF c = column THEN v ELSE rows[k][c]]
                             ELSE rows[k]]

\* DataSourceService.delete_data_source(data_source_id, deleted_by): the row
\* is kept and marked inactive; a failing commit is rolled back
CallDeleteDataSource(id, u) ==
    /\ SchemaCall("delete_data_source", u)
    /\ data_source_id' = id
    /\ outcome' = <<>>
    /\ IF get_data_source_by_id(id) = NoRow
       THEN /\ result' = Returned(FALSE)
            /\ UNCHANGED <<store, audit_log, audit_failed, db_faults>>
       ELSE \/ /\ store' = SetColumn(store, id, "is_active", FALSE)
               /\ \E ok \in BOOLEAN :
                     log_action(ok, u, "delete_data_source",
                                <<id, get_data_source_by_id(id).name>>)
               /\ result' = Returned(TRUE)
               /\ UNCHANGED db_faults
            \/ /\ DbFault
               /\ result' = Returned(FALSE)
               /\ UNCHANGED <<store, audit_log, audit_failed>>
    /\ UNCHANGED <<schema_mappings, last_schema, connectors>>

\* the descriptors update_data_source may store as connection_string
UpdateDescriptors == {Catalogue[2], Catalogue[5]}

\* DataSourceService.update_data_source(data_source_id,
\* {"connection_string": json.dumps(config)}, updated_by): setattr on the row
CallUpdateDataSource(id, config, u) ==
    /\ SchemaCall("update_data_source", u)
    /\ data_source_id' = id
    /\ outcome' = <<>>
    /\ IF get_data_source_by_id(id) = NoRow
       THEN /\ result' = Returned(FALSE)
            /\ UNCHANGED <<store, audit_log, audit_failed, db_faults>>
       ELSE \/ /\ store' = SetColumn(store, id, "config", config)
               /\ \E ok \in BOOLEAN :
                     log_action(ok, u, "update_data_source", <<id, config>>)
               /\ result' = Returned(TRUE)
               /\ UNCHANGED db_faults
            \/ /\ DbFault
               /\ result' = Returned(FALSE)
               /\ UNCHANGED <<store, audit_log, audit_failed>>
    /\ UNCHANGED <<schema_mappings, last_schema, connectors>>

NextSchema ==
    \/ \E config \in SchemaDescriptors, u \in UserIds : CallCreateDataSource(config, u)
    \/ \E id \in 1..(Len(store) + 1), u \in UserIds : CallRefreshSchema(id, u)
    \/ \E id \in 1..(Len(store) + 1), u \in UserIds : CallDeleteDataSource(id, u)
    \/ \E id \in 1..(Len(store) + 1), config \in UpdateDescriptors, u \in UserIds :
          CallUpdateDataSource(id, config, u)
    \/ FileReplaced
    \/ \E path \in {"data/hr.csv"} : FileRemoved(path)

SpecSchema == InitSchema /\ [][NextSchema]_vars

(***************************************************************************)
(* The search service after data sources were deleted: delete_data_source  *)
(* is called any number of times before one call on the search service.    *)
(***************************************************************************)
\* the data source table the deletions start from
DeleteStore ==
    [k \in 1..2 |-> [id |-> k, name |-> Catalogue[k].name, is_active |-> TRUE,
                     config |-> Catalogue[k]]]

InitDelete ==
    /\ store = DeleteStore
    /\ Idle
    /\ frame = EmptyDataFrame /\ filtered = <<>>
    /\ Untouched

NextDelete ==
    \/ \E id \in 1..(Len(store) + 1), u \in UserIds : CallDeleteDataSource(id, u)
    \/ Next

SpecDelete == InitDelete /\ [][NextDelete]_vars

(***************************************************************************)
(* global_search when a server never answers: the thread of the call keeps *)
(* running as long as it has a step to take.                               *)
(***************************************************************************)
\* a database server that never answers, and a file
HangSources ==
    <<[name |-> "slow", type |-> "postgres", file_path |-> "",
       connection_string |-> "postgresql://stalled"],
      Catalogue[1]>>

\* the two sources, stored in either order
HangStores ==
    {[k \in 1..2 |-> [id |-> k, name |-> HangSources[p[k]].name, is_active |-> TRUE,
                      config |-> HangSources[p[k]]]] :
        p \in {<<1, 2>>, <<2, 1>>}}

InitHang ==
    /\ store \in HangStores
    /\ Idle
    /\ frame = EmptyDataFrame /\ filtered = <<>>
    /\ Untouched

NextHang ==
    \/ \E u \in UserIds, ident \in Identifiers : CallGlobalSearch(u, ident)
    \/ \E u \in UserIds, ident \in Identifiers, id \in 1..(Len(store) + 1) :
          CallGlobalSearchOf(u, ident, <<id>>)
    \/ GsResolve \/ GsLookup \/ GsConnect \/ GsSearch \/ GsDisconnect \/ GsAggregate
    \/ GsSession \/ GsLog \/ GsReturn

SpecHang == InitHang /\ [][NextHang]_vars /\ WF_vars(NextHang)

(***************************************************************************)
(* Properties of the search service                                        *)
(***************************************************************************)
GsDone == pc = "done" /\ op = "global_search"
PpDone == pc = "done" /\ op = "get_person_provenance"

\* the ways a source can fail within global_search
FailKinds == {"lookup_raised", "create_raised", "connect_failed", "search_raised"}

\* the row behind each id global_search was to visit
VisitedRows == [k \in 1..Len(data_sources) |-> get_data_source_by_id(data_sources[k])]

\* the source of this row fails at connector creation, connect or search
SourceFails(row, ident) ==
    LET made == create_connector(row.config)
    IN  \/ made.raised
        \/ ~connect(made.connector).ok
        \/ search_person_records(connect(made.connector).connector, ident).raised

\* what a search of this source alone returns
SearchAlone(row, ident) ==
    search_person_records(connect(create_connector(row.config).connector).connector,
                          ident).results

\* the search result over the visited sources at the positions in kept, none
\* of which fails, from position k on
RECURSIVE SearchOf(_, _, _, _)
SearchOf(kept, k, ident, acc) ==
    IF k > Len(data_sources) THEN acc
    ELSE IF k \notin kept THEN SearchOf(kept, k + 1, ident, acc)
    ELSE LET found == SearchAlone(VisitedRows[k], ident)
         IN  SearchOf(kept, k + 1, ident,
                IF found = <<>> THEN acc
                ELSE [results |-> DictSet(acc.results, VisitedRows[k].name, found),
                      total_records |-> acc.total_records + RowCount(found),
                      data_sources_queried |->
                          Append(acc.data_sources_queried, VisitedRows[k].name)])

NothingFound == [results |-> <<>>, total_records |-> 0, data_sources_queried |-> <<>>]

\* the number of rows of every table of every source of a results map
RECURSIVE RowsIn(_)
RowsIn(search_results) ==
    IF search_results = <<>> THEN 0
    ELSE RowCount(search_results[1].v) + RowsIn(Tail(search_results))

HasSensitiveColumn(df) ==
    \E c \in 1..Len(df.columns) : AnyIn(SENSITIVE_FIELDS, StrLower(df.columns[c]))

\* C1: in global_search every id is visited whatever failed before it, every
\* source that does not fail (at connector creation, connect or search) is
\* connected and searched, and the results map is the one a search over the
\* non-failing sources alone gives.
C1_FailingSourceNeverAborts ==
    (GsDone /\ ~result.value.error) =>
        LET good(k) == /\ VisitedRows[k] # NoRow
                       /\ outcome[k] # "lookup_raised"
                       /\ ~SourceFails(VisitedRows[k], identifier)
        IN  /\ Len(outcome) = Len(data_sources)
            /\ \A k \in 1..Len(data_sources) : good(k) => outcome[k] = "ok"
            /\ result.value.results = SearchOf({k \in 1..Len(data_sources) : good(k)}, 1,
                                              identifier, NothingFound).results

\* a failing source came first and the source after it gave rows
C1_Witness ==
    /\ GsDone /\ ~result.value.error
    /\ Len(outcome) = 2
    /\ outcome[1] \in FailKinds /\ outcome[2] = "ok"
    /\ DictHas(result.value.results, VisitedRows[2].name)

\* C2: total_records of the value global_search returns is the number of rows
\* of all the tables in the results map it returns.
C2_TotalIsSumOfReturnedRows ==
    GsDone => result.value.total_records = RowsIn(result.value.results)

\* C3: data_sources_queried holds exactly the names of the sources whose
\* connect and search_person_records both completed without failure.
C3_QueriedAreTheSourcesThatCompleted ==
    (GsDone /\ ~result.value.error) =>
        Range(result.value.data_sources_queried)
            = {VisitedRows[k].name : k \in {j \in 1..Len(outcome) : outcome[j] = "ok"}}

\* C4: when the persistence collaborator fails or every source fails,
\* global_search returns, without raising, no results, a total of 0 and no
\* queried source.
C4_AllFailedGivesEmptyResult ==
    (GsDone /\ (result.value.error \/ \A k \in 1..Len(outcome) : outcome[k] \in FailKinds))
        => /\ result.returned /\ ~result.raised
           /\ result.value.results = <<>>
           /\ result.value.total_records = 0
           /\ result.value.data_sources_queried = <<>>

\* two sources, each of which failed
C4_Witness ==
    /\ GsDone /\ ~result.value.error
    /\ Len(outcome) = 2
    /\ \A k \in 1..2 : outcome[k] \in FailKinds

\* C5: when the search session or the audit record cannot be stored,
\* global_search still returns, with the results, total and queried sources of
\* the sources that completed; the session id is None exactly when the session
\* could not be stored.
C5_AuditFailureLeavesResult ==
    (GsDone /\ audit_failed # {}) =>
        LET expected == SearchOf({k \in 1..Len(outcome) : outcome[k] = "ok"}, 1,
                                 identifier, NothingFound)
        IN  /\ result.returned /\ ~result.raised /\ ~result.value.error
            /\ result.value.results = expected.results
            /\ result.value.total_records = expected.total_records
            /\ result.value.data_sources_queried = expected.data_sources_queried
            /\ (result.value.search_session_id = 0) <=> ("search_session" \in audit_failed)

\* both audit steps failed in a search that found rows
C5_Witness ==
    /\ GsDone /\ ~result.value.error
    /\ audit_failed = {"search_session", "log_action"}
    /\ result.value.total_records > 0
    /\ result.value.search_session_id = 0

\* C6: when global_search, search_by_data_source or execute_custom_query has
\* returned, no connector it created is still connected.
C6_NoConnectorLeftConnected ==
    (pc = "done" /\ op \in {"global_search", "search_by_data_source",
                            "execute_custom_query"})
        => \A k \in 1..Len(connectors) : ~connectors[k].is_connected

\* C7: no table that a search or a custom query returns, with or without
\* rows, has a column whose lower-cased name contains a sensitive keyword.
C7_NoSensitiveColumnLeaves ==
    (pc = "done" /\ ~result.value.error) =>
        /\ op = "global_search" =>
              \A s \in 1..Len(result.value.results) :
                  \A t \in 1..Len(result.value.results[s].v) :
                      ~HasSensitiveColumn(result.value.results[s].v[t].v)
        /\ op = "search_by_data_source" =>
              \A t \in 1..Len(result.value.results) :
                  ~HasSensitiveColumn(result.value.results[t].v)
        /\ op = "execute_custom_query" => ~HasSensitiveColumn(result.value.results)

\* C8: filtering a frame a second time gives the frame the first filtering gave.
C8_FilterIdempotent ==
    Len(filtered) = 2 => filtered[2] = filtered[1]

\* a frame was filtered twice, and the first filtering removed some but not all
\* of its columns
C8_Witness ==
    /\ Len(filtered) = 2
    /\ filtered[1] # frame
    /\ ~df_empty(filtered[1])

\* the key the claim gives a row: the stripped, lower-cased cell of the first
\* person-identifier column, in column order, whose cell is not blank; <<>>
\* when the row has none
C9_Key(df, row) ==
    LET named(n) == AnyIn(FilePersonIdentifiers, StrLower(df.columns[n]))
        filled(n) == row[n] # NULL /\ \E c \in 1..Len(row[n]) : row[n][c] # " "
        first == {n \in 1..Len(row) :
                     named(n) /\ filled(n) /\ \A m \in 1..(n - 1) : ~(named(m) /\ filled(m))}
    IN  IF first = {} THEN <<>> ELSE StrLower(StrStrip(row[CHOOSE n \in first : TRUE]))

\* the number of records of this source, table and row in a group
C9_Records(group, source, table, row) ==
    Cardinality({n \in 1..Len(group) :
        /\ group[n].data_source = source /\ group[n].table = table
        /\ group[n].record.cells = row})

\* C9: group_results_by_person puts each row of the search results in the
\* group of its key and in no other group, a row without a key in no group,
\* and total_records counts the rows with and without a key.
C9_RowsGroupedByFirstIdentifier ==
    (PpDone /\ ~result.value.error) =>
        /\ \A s \in 1..Len(all_results) : \A t \in 1..Len(all_results[s].v) :
              LET df == all_results[s].v[t].v
              IN  \A r \in 1..Len(df.rows) : \A g \in 1..Len(person_groups) :
                     C9_Records(person_groups[g].v, all_results[s].k,
                                all_results[s].v[t].k, df.rows[r])
                       = IF person_groups[g].k = C9_Key(df, df.rows[r])
                         THEN Cardinality({q \in 1..Len(df.rows) : df.rows[q] = df.rows[r]})
                         ELSE 0
        /\ \A s \in 1..Len(all_results) : \A t \in 1..Len(all_results[s].v) :
              LET df == all_results[s].v[t].v
              IN  \A r \in 1..Len(df.rows) :
                     C9_Key(df, df.rows[r]) # <<>>
                         => DictHas(person_groups, C9_Key(df, df.rows[r]))
        /\ \A g \in 1..Len(person_groups) : \A n \in 1..Len(person_groups[g].v) :
              /\ person_groups[g].v[n].person_identifier = person_groups[g].k
              /\ \E s \in 1..Len(all_results) : \E t \in 1..Len(all_results[s].v) :
                    /\ all_results[s].k = person_groups[g].v[n].data_source
                    /\ all_results[s].v[t].k = person_groups[g].v[n].table
                    /\ person_groups[g].v[n].record.cells
                           \in Range(all_results[s].v[t].v.rows)
        /\ result.value.total_records >= RowsIn(all_results)

\* two sources each gave a row of customer "c100": one group, a record of each
\* source; a third row has no key and is counted
C9_Witness ==
    /\ PpDone /\ ~result.value.error
    /\ DictHas(person_groups, id_c100)
    /\ Len(DictGet(person_groups, id_c100)) = 2
    /\ DictGet(person_groups, id_c100)[1].data_source
           # DictGet(person_groups, id_c100)[2].data_source
    /\ \E s \in 1..Len(all_results) : \E t \in 1..Len(all_results[s].v) :
          \E r \in 1..Len(all_results[s].v[t].v.rows) :
              C9_Key(all_results[s].v[t].v, all_results[s].v[t].v.rows[r]) = <<>>

\* C10: get_person_provenance returns the records of the group whose key is
\* the lower-cased, stripped person_identifier.
C10_ProvenanceByStrippedKey ==
    (PpDone /\ ~result.value.error) =>
        result.value.records
            = IF DictHas(person_groups, StrLower(StrStrip(identifier)))
              THEN DictGet(person_groups, StrLower(StrStrip(identifier)))
              ELSE <<>>

(***************************************************************************)
(* Properties of the factory and of one connector                          *)
(***************************************************************************)
\* the kinds of source the factory is to know
RecognisedTypes == {"postgres", "mysql", "csv", "json", "xml"}

\* the descriptor of the call is of a kind the factory does not know
UnknownKind == data_source # NoRow /\ data_source.config.type \notin RecognisedTypes

\* C11: create_connector raises for every descriptor whose type is not a
\* recognised one and builds no connector; test_connection on such a
\* descriptor returns (False, message) and does not raise.
C11_UnknownKindIsRefused ==
    /\ (op = "create_connector" /\ UnknownKind)
          => (result.returned /\ result.raised /\ connectors = <<>>)
    /\ (op = "test_connection" /\ UnknownKind)
          => /\ result.returned /\ ~result.raised
             /\ result.value.success = FALSE
             /\ result.value.message = "Connection error"

\* test_connection was called on a descriptor of type "relational"
C11_Witness ==
    /\ op = "test_connection"
    /\ data_source.config.type = "relational"
    /\ result.value.success = FALSE

\* C12: when test_connection has returned, the connector it built is not
\* connected and holds nothing open, whether connect succeeded or failed: no
\* engine that is not disposed, no loaded file data.
C12_TestConnectionReleases ==
    op = "test_connection" =>
        \A k \in 1..Len(connectors) :
            /\ ~connectors[k].is_connected
            /\ connectors[k].engine # "open"
            /\ ~connectors[k].loaded

\* the connect of the test failed after the engine was created
C12_Witness ==
    /\ op = "test_connection"
    /\ result.value.success = FALSE
    /\ Len(connectors) = 1
    /\ connectors[1].engine = "disposed"

\* the connector under call is a file connector whose path names no file
PathMissing ==
    /\ connectors # <<>>
    /\ connectors[1].class = "FileConnector"
    /\ connectors[1].target \notin DOMAIN FileSystem

\* C13: connect on a file connector whose path does not exist returns False
\* and leaves it not connected; and whenever the connector is not connected
\* (never connected, connect failed, or disconnected) get_schema returns {},
\* list_tables and search_person_records return nothing, and disconnect
\* returns without raising.
C13_NotConnectedIsInert ==
    (pc = "connector" /\ connectors # <<>>) =>
        /\ (op = "connect" /\ PathMissing)
              => (result.value = FALSE /\ ~connectors[1].is_connected)
        /\ (op = "connect" /\ result.value = FALSE) => ~connectors[1].is_connected
        /\ ~connectors[1].is_connected =>
              /\ op = "get_schema" => result.value = <<>>
              /\ op = "list_tables" => result.value = <<>>
              /\ op = "search_person_records" => (~result.raised /\ result.value = <<>>)
              /\ op = "disconnect" => ~result.raised

\* executing the query of the last call failed inside the connected connector:
\* the file connector's parsing or filtering raised, or the database refused
\* the statement
ExecutionFailed ==
    /\ op = "execute_query" /\ connectors[1].is_connected
    /\ IF connectors[1].class = "SQLConnector"
       THEN DbExecute(Databases[connectors[1].target], query).raised
       ELSE FileQueryAttempt(connectors[1].data, query).raised

\* C14: when executing a query fails, execute_query of either connector
\* returns an empty frame and does not raise.
C14_FailedQueryGivesEmptyResult ==
    (pc = "connector" /\ connectors # <<>> /\ ExecutionFailed)
        => (~result.raised /\ df_empty(result.value))

\* the value is the one a search returns that queried sources and found no
\* record: no error, no results, a total of 0, no source named
ZeroRecordsValue(value) ==
    /\ ~value.error
    /\ value.results = <<>>
    /\ value.total_records = 0
    /\ value.data_sources_queried = <<>>

\* C15: when the set of sources global_search resolved is empty, the value it
\* returns is not the value of a search that found zero records: it carries a
\* signal that tells the two apart.
C15_NoSourcesIsSignalled ==
    (GsDone /\ data_sources = <<>>) => ~ZeroRecordsValue(result.value)

\* the texts of a sequence of statements, without their parameters
Texts(sent) == [i \in 1..Len(sent) |-> sent[i].text]

\* C16: the statement texts search_person_records sent to a relational
\* source are those it sends for any other identifier on the same schema:
\* the identifier travels in the bound parameters only.
C16_StatementTextIgnoresIdentifier ==
    (pc = "connector" /\ op = "search_person_records"
        /\ connectors[1].class = "SQLConnector")
        => \A other \in ConnectorIdentifiers :
               Texts(search_statements(connectors[1], other)) = Texts(statements)

\* the indices 1..n that are in the set kept, in order
Indices(n, kept) == SelectSeq([i \in 1..n |-> i], LAMBDA i : i \in kept)

\* what the claim gives for a search of the loaded frame: the rows with the
\* identifier as a literal substring, whatever the case, of a cell of a
\* person-identifier column, without the sensitive columns; no table when no
\* row matches
C17_Expected(data, ident) ==
    LET named == {i \in 1..Len(data.columns) :
                     AnyIn(FilePersonIdentifiers, StrLower(data.columns[i]))}
        hits  == {r \in 1..Len(data.rows) : \E i \in named :
                     /\ data.rows[r][i] # NULL
                     /\ StrIn(StrLower(ident), StrLower(data.rows[r][i]))}
        plain == {i \in 1..Len(data.columns) :
                     ~AnyIn(SENSITIVE_FIELDS, StrLower(data.columns[i]))}
        cols  == Indices(Len(data.columns), plain)
        rws   == Indices(Len(data.rows), hits)
    IN  IF hits = {} THEN <<>>
        ELSE << [k |-> main_table,
                 v |-> [columns |-> [n \in 1..Len(cols) |-> data.columns[cols[n]]],
                        rows    |-> [m \in 1..Len(rws) |->
                                       [n \in 1..Len(cols) |->
                                           data.rows[rws[m]][cols[n]]]]]] >>

\* C17: for a connected file connector and every identifier,
\* search_person_records returns, under main_table, exactly the rows in which
\* a person-identifier column contains the identifier as a literal
\* case-insensitive substring, sensitive columns removed and the others kept,
\* and an empty map when no row matches.
C17_FileSearchIsLiteralSubstring ==
    (pc = "connector" /\ op = "search_person_records"
        /\ connectors[1].class = "FileConnector" /\ connectors[1].is_connected)
        => /\ ~result.raised
           /\ result.value = C17_Expected(connectors[1].data, identifier)

\* The supported shape SELECT <cols|*> FROM <table> [WHERE <col> LIKE '%<term>%']
\* [LIMIT <n>] as a record; where = <<>> and limit = <<>> say that the clause
\* is absent.
C18_Shapes ==
    [cols  : {<<<<"*">>>>, <<col_ssn>>, <<col_name, col_ssn>>},
     table : {main_table, tbl_customers},
     where : {<<>>} \cup {<<col_name, term>> : term \in {<<"z","z","z">>, id_jane}},
     limit : {<<>>, <<"1">>}]

\* the text of a query of that shape
C18_Text(shape) ==
    <<"S","E","L","E","C","T"," ">> \o StrJoin(<<","," ">>, shape.cols) \o <<" ","F","R","O","M"," ">> \o shape.table
      \o (IF shape.where = <<>> THEN <<>>
          ELSE <<" ","W","H","E","R","E"," ">> \o shape.where[1] \o <<" ","L","I","K","E"," ","'","%">> \o shape.where[2]
                 \o <<"%","'">>)
      \o (IF shape.limit = <<>> THEN <<>> ELSE <<" ","L","I","M","I","T"," ">> \o shape.limit)

\* what the claim gives for a query of that shape on the loaded frame
C18_Expected(data, shape) ==
    LET hits == IF shape.where = <<>> THEN 1..Len(data.rows)
                ELSE {r \in 1..Len(data.rows) : \E i \in 1..Len(data.columns) :
                         /\ data.columns[i] = shape.where[1]
                         /\ data.rows[r][i] # NULL
                         /\ StrIn(StrLower(shape.where[2]), StrLower(data.rows[r][i]))}
        rws  == Indices(Len(data.rows), hits)
        cut  == IF shape.limit = <<>> THEN rws
                ELSE SubSeq(rws, 1, IF int_value(shape.limit) < Len(rws)
                                    THEN int_value(shape.limit) ELSE Len(rws))
        cols == IF shape.cols = <<<<"*">>>> THEN [i \in 1..Len(data.columns) |-> i]
                ELSE [n \in 1..Len(shape.cols) |->
                        CHOOSE i \in 1..Len(data.columns) : data.columns[i] = shape.cols[n]]
    IN  [columns |-> [n \in 1..Len(cols) |-> data.columns[cols[n]]],
         rows    |-> [m \in 1..Len(cut) |->
                        [n \in 1..Len(cols) |-> data.rows[cut[m]][cols[n]]]]]

\* the frame has every column the shape names
C18_Applies(data, shape) ==
    /\ shape.cols = <<<<"*">>>> \/ Range(shape.cols) \subseteq Range(data.columns)
    /\ shape.where = <<>> \/ shape.where[1] \in Range(data.columns)

\* C18: on a connected file connector, execute_query on a query of the
\* supported shape returns the loaded rows filtered on the named column only,
\* by case-insensitive containment of the term, projected on the selected
\* columns and cut to the limit; on any other query it returns the loaded
\* table as it is.
C18_FileQueryFollowsShape ==
    (pc = "connector" /\ op = "execute_query"
        /\ connectors[1].class = "FileConnector" /\ connectors[1].is_connected)
        => LET data == connectors[1].data
               shapes == {shape \in C18_Shapes : C18_Text(shape) = query}
           IN  /\ shapes = {} => result.value = data
               /\ \A shape \in shapes :
                      C18_Applies(data, shape) => result.value = C18_Expected(data, shape)

(***************************************************************************)
(* Properties of the data source service                                   *)
(***************************************************************************)
\* the mappings stored for one data source, in table order
StoredMappings(id) == SelectSeq(schema_mappings, LAMBDA m : m.data_source_id = id)

\* C19: the schema_info stored with every data source and the mappings stored
\* for it both are those of the schema its last successful connect and
\* get_schema gave, as long as the persistence collaborator has not failed; a
\* refresh_schema whose connect failed does not report success.
C19_StoredSchemaIsLastSuccessful ==
    db_faults = 0 =>
    /\ \A k \in 1..Len(store) :
          /\ DictHas(last_schema, store[k].id)
          /\ store[k].schema_info = DictGet(last_schema, store[k].id)
          /\ StoredMappings(store[k].id)
                 = MappingsOf(store[k].id, DictGet(last_schema, store[k].id), 1)
    /\ (op = "refresh_schema" /\ outcome = <<"connect_failed">>)
          => result.value.success = FALSE

\* C20: when global_search, search_by_data_source or execute_custom_query has
\* returned, the audit log holds a record of the call with the caller's user
\* id, whatever the outcome (records found, nothing found, source not found,
\* connect failed), as long as the audit store itself did not fail.
C20_EveryCallIsAudited ==
    (pc = "done" /\ audit_failed = {} /\ db_faults = 0
        /\ op \in {"global_search", "search_by_data_source", "execute_custom_query"})
        => \E n \in 1..Len(audit_log) : audit_log[n].user_id = user_id

(***************************************************************************)
(* Properties of deleted data sources                                      *)
(***************************************************************************)
\* C21: once delete_data_source has deactivated a source, no later call of
\* global_search (with or without a list of ids), search_by_data_source or
\* execute_custom_query builds a connector for it: the row a call has fetched
\* to query is active in the store.
C21_OnlyActiveSourcesAreQueried ==
    (op \in {"global_search", "search_by_data_source", "execute_custom_query"}
        /\ connectors # <<>>)
        => get_data_source_by_id(data_source.id).is_active

(***************************************************************************)
(* Properties of global_search as a sequence of steps                      *)
(***************************************************************************)
\* C22: a call of global_search eventually returns, also when a source never
\* answers its connect.
C22_GlobalSearchReturns == (op = "global_search") ~> (pc = "done")

\* one step of a call, as C23 allows it
C23_Step ==
    /\ pc' = "gs_connect" => pc = "gs_lookup" /\ Len(connectors') = Len(connectors) + 1
    /\ pc' = "gs_search" => pc = "gs_connect" /\ connect(connector).ok
                                /\ connectors'[Len(connectors')].is_connected
    /\ pc' = "gs_disconnect" => pc = "gs_search"
    /\ pc' = "gs_aggregate" => pc = "gs_disconnect"
                                   /\ ~connectors'[Len(connectors')].is_connected
    /\ accum' # accum => pc = "gs_aggregate"
    /\ search_sessions' # search_sessions =>
          /\ pc = "gs_session" /\ cursor > Len(data_sources)
          /\ Len(outcome) = Len(data_sources)
          /\ search_sessions'[Len(search_sessions')].results_count = total_records
          /\ search_sessions'[Len(search_sessions')].data_sources_queried
                 = data_sources_queried

\* C23: within one global_search each source goes through create connector,
\* connect, search_person_records, disconnect in that order (no search on a
\* connector whose connect returned False, disconnect before the source's
\* rows are aggregated), and the search session is created only after every
\* source was processed, with the final total_records and data_sources_queried.
C23_StepsInOrder == [][C23_Step]_vars

\* a search over two sources, one found and one that failed to connect, has
\* returned and its session is stored
C23_Witness ==
    /\ GsDone /\ Len(data_sources) = 2
    /\ "ok" \in Range(outcome) /\ "connect_failed" \in Range(outcome)
    /\ total_records > 0 /\ search_sessions # <<>>

(***************************************************************************)
(* Properties of the classification of columns                             *)
(***************************************************************************)
\* the columns of table t that search_person_records matches the identifier against
C24_Searched(c, t) ==
    IF c.class = "SQLConnector" THEN Range(get_person_identifier_columns(c, t))
    ELSE Range(SelectSeq(c.data.columns, file_is_person_identifier))

\* the columns a table's schema entry flags is_person_identifier
C24_Flagged(columns) ==
    {columns[i].name : i \in {j \in 1..Len(columns) : columns[j].is_person_identifier}}

\* C24: for a connected connector of either class and every table of its
\* schema, the columns search_person_records searches are the columns
\* get_schema flags is_person_identifier.
C24_SearchedAreFlagged ==
    (pc = "connector" /\ connector.is_connected) =>
        \A t \in 1..Len(get_schema(connector)) :
            C24_Searched(connector, get_schema(connector)[t].k)
                = C24_Flagged(get_schema(connector)[t].v.columns)

\* C25: for both connector classes and every column of a frame, get_schema
\* flags the column is_sensitive exactly when filter_sensitive_fields removes
\* it from the frame.
C25_FlaggedSensitiveIffRemoved ==
    filtered # <<>> =>
        \A class \in {"SQLConnector", "FileConnector"} :
            \A i \in 1..Len(frame.columns) :
                SchemaColumns(frame.columns, class)[i].is_sensitive
                    <=> frame.columns[i] \notin Range(filtered[1].columns)

(***************************************************************************)
(* Properties of the search in a file source                               *)
(***************************************************************************)
\* the same connector over a file that differs only in the values of its
\* sensitive columns
C26_Blanked(c) ==
    [c EXCEPT !.data =
        [columns |-> c.data.columns,
         rows |-> [r \in 1..Len(c.data.rows) |->
                     [i \in 1..Len(c.data.columns) |->
                         IF AnyIn(SENSITIVE_FIELDS, StrLower(c.data.columns[i]))
                         THEN <<"x">> ELSE c.data.rows[r][i]]]]]

\* C26: what search_person_records of a file connector returns does not
\* depend on the values in sensitive columns: the same call on a file that
\* differs only in those values returns the same rows.
C26_SearchIgnoresSensitiveValues ==
    (pc = "connector" /\ op = "search_person_records"
        /\ connector.class = "FileConnector" /\ ~result.raised) =>
        result.value = search_person_records(C26_Blanked(connector), identifier).results

(***************************************************************************)
(* Properties of the value global_search returns                           *)
(***************************************************************************)
\* C27: in the value global_search returns, data_sources_queried holds no
\* name twice and exactly the keys of results, every source in results has a
\* table and every table a row.
C27_QueriedAreTheKeysOnce ==
    (GsDone /\ ~result.value.error) =>
        LET value == result.value
        IN  /\ \A a, b \in 1..Len(value.data_sources_queried) :
                  a # b => value.data_sources_queried[a] # value.data_sources_queried[b]
            /\ Range(value.data_sources_queried) = Range(DictKeys(value.results))
            /\ \A s \in 1..Len(value.results) :
                  /\ value.results[s].v # <<>>
                  /\ \A t \in 1..Len(value.results[s].v) :
                        df_len(value.results[s].v[t].v) > 0

(***************************************************************************)
(* Properties of create_data_source and refresh_schema                     *)
(***************************************************************************)
\* C28: create_data_source is all or nothing: when it returns (False, ...)
\* the store holds neither a row nor a mapping for the source, when it
\* returns (True, ...) it holds the row and the mappings of its schema.
C28_CreateIsAllOrNothing ==
    (op = "create_data_source" /\ result.returned) =>
        IF result.value.success
        THEN /\ get_data_source_by_id(data_source_id) # NoRow
             /\ StoredMappings(data_source_id)
                    = MappingsOf(data_source_id,
                                 get_data_source_by_id(data_source_id).schema_info, 1)
        ELSE /\ get_data_source_by_id(data_source_id) = NoRow
             /\ StoredMappings(data_source_id) = <<>>

\* C29: refresh_schema never raises, whatever descriptor the stored row holds,
\* also while the persistence collaborator works.
C29_RefreshNeverRaises ==
    (op = "refresh_schema" /\ result.returned /\ db_faults = 0) => ~result.raised

\* the frame without the rows whose person-identifier cells are all null
C30_WithoutNullRows(data) ==
    LET named == {i \in 1..Len(data.columns) : file_is_person_identifier(data.columns[i])}
        rws   == Indices(Len(data.rows),
                         {r \in 1..Len(data.rows) : \E i \in named : notna(data.rows[r][i])})
    IN  [columns |-> data.columns, rows |-> [m \in 1..Len(rws) |-> data.rows[rws[m]]]]

\* C30: in the search of a file connector a row whose person-identifier
\* columns are all null is returned for no identifier: the search returns
\* what it returns on the file without those rows.
C30_NullNeverMatches ==
    (pc = "connector" /\ op = "search_person_records"
        /\ connector.class = "FileConnector" /\ connector.is_connected
        /\ ~result.raised) =>
        result.value = search_person_records(
                           [connector EXCEPT !.data = C30_WithoutNullRows(connector.data)],
                           identifier).results
====
